---- MODULE Spec2Model ----
(***************************************************************************)
(* Tiered cache / persistence orchestrator of ai-hedge-fund:               *)
(*   src/data/database.py  tier availability, cache mode, cache keys       *)
(*   src/data/cache.py     PersistentCache facade, fallback (memory) store *)
(*   src/data/db_models.py durable schema                                  *)
(* Text values are TLA+ strings handled as character sequences, so that    *)
(* key formatting, glob matching and string comparison are computed.       *)
(***************************************************************************)
EXTENDS Integers, Sequences, FiniteSets, TLC

VARIABLES
    CACHE_MODE,      \* database.py: configured mode, rewritten by set_cache_mode
    _engine,         \* database.py: TRUE iff _engine is not None
    _db_enabled,     \* database.py
    _redis_client,   \* database.py: TRUE iff _redis_client is not None
    _redis_enabled,  \* database.py
    pref,            \* the mode preference last configured by the user (environment or call)
    _cache,          \* cache.py: the global PersistentCache instance [redis, cache_mode]
    _cache_manager,  \* cache_manager.py: the global CacheManager instance, if imported
    db,              \* durable store: table name -> sequence of committed rows
    redis,           \* fast cache: key -> entry
    _memory_cache,   \* cache.py: cache type -> (ticker -> list of dicts)
    op,              \* the last call (name and arguments)
    ret,             \* what the last call returned or raised
    sessions,        \* database.py: the sessions made by _SessionLocal and those open
    wrapper          \* caller -> position in the call it is in (with_db_session, init_db...)

vars == <<CACHE_MODE, _engine, _db_enabled, _redis_client, _redis_enabled, pref,
          _cache, _cache_manager, db, redis, _memory_cache, op, ret, sessions,
          wrapper>>

-----------------------------------------------------------------------------
(* Python values *)

None == [t |-> "none"]
PyStr(s) == [t |-> "str", s |-> s]
PyInt(n) == [t |-> "int", n |-> n]

\* a call's outcome: a returned value or a raised exception
Return(v) == [kind |-> "return", val |-> v]
Raise(e) == [kind |-> "raise", exc |-> e]

\* code points of the characters used, in increasing order (str comparison is by code point)
CodePoints == "-0123456789:ABCDEFGHIJKLMNOPQRSTUVWXYZ_abcdefghijklmnopqrstuvwxyz"

CodePointRank ==
    [c \in {SubSeq(CodePoints, i, i) : i \in 1..Len(CodePoints)} |->
        CHOOSE i \in 1..Len(CodePoints) : SubSeq(CodePoints, i, i) = c]

\* ord(c), up to an order-preserving renumbering
Ord(c) == CodePointRank[c]

RECURSIVE StrLT(_, _)
StrLT(a, b) ==
    IF b = "" THEN FALSE
    ELSE IF a = "" THEN TRUE
    ELSE IF Head(a) = Head(b) THEN StrLT(Tail(a), Tail(b))
    ELSE Ord(Head(a)) < Ord(Head(b))

StrLE(a, b) == a = b \/ StrLT(a, b)

\* f"{v}" for an int
RECURSIVE IntStr(_)
IntStr(n) ==
    IF n < 10 THEN SubSeq("0123456789", n + 1, n + 1)
    ELSE IntStr(n \div 10) \o SubSeq("0123456789", (n % 10) + 1, (n % 10) + 1)

\* f"{v}"
Format(v) == IF v.t = "int" THEN IntStr(v.n) ELSE v.s

\* sep.join(parts)
RECURSIVE Join(_, _)
Join(parts, sep) ==
    IF parts = <<>> THEN ""
    ELSE IF Len(parts) = 1 THEN parts[1]
    ELSE parts[1] \o sep \o Join(Tail(parts), sep)

\* s.split("T")[0]
RECURSIVE SplitT0(_)
SplitT0(s) ==
    IF s = "" THEN ""
    ELSE IF Head(s) = "T" THEN ""
    ELSE Head(s) \o SplitT0(Tail(s))

\* redis glob match of the pattern prefix + "*"
GlobMatch(prefix, key) ==
    Len(key) >= Len(prefix) /\ SubSeq(key, 1, Len(prefix)) = prefix

-----------------------------------------------------------------------------
(* database.py: generate_cache_key *)

\* sorted(kwargs.items()): kwargs is a sequence of <<name, value>> in insertion order
RECURSIVE InsertItem(_, _)
InsertItem(sorted, item) ==
    IF sorted = <<>> THEN <<item>>
    ELSE IF StrLT(item[1], Head(sorted)[1]) THEN <<item>> \o sorted
    ELSE <<Head(sorted)>> \o InsertItem(Tail(sorted), item)

RECURSIVE SortedItems(_)
SortedItems(kwargs) ==
    IF kwargs = <<>> THEN <<>>
    ELSE InsertItem(SortedItems(SubSeq(kwargs, 1, Len(kwargs) - 1)), kwargs[Len(kwargs)])

RECURSIVE KeyParts(_)
KeyParts(items) ==
    IF items = <<>> THEN <<>>
    ELSE (IF Head(items)[2] # None
          THEN <<Head(items)[1] \o ":" \o Format(Head(items)[2])>>
          ELSE <<>>)
         \o KeyParts(Tail(items))

\* a key built from the parameters in insertion order
generate_cache_key_unsorted(data_type, kwargs) ==
    Join(<<data_type>> \o KeyParts(kwargs), ":")

generate_cache_key(data_type, kwargs) ==
    Join(<<data_type>> \o KeyParts(SortedItems(kwargs)), ":")

-----------------------------------------------------------------------------
(* database.py: tier availability and cache mode.  The operators work on   *)
(* the record g of the module globals.                                     *)

Modes == {"full", "sqlite", "redis", "memory", "none"}

Globals == [CACHE_MODE |-> CACHE_MODE, engine |-> _engine, db_enabled |-> _db_enabled,
            redis_client |-> _redis_client, redis_enabled |-> _redis_enabled]

is_db_enabled(g) == g.db_enabled /\ g.engine

is_redis_enabled(g) == g.redis_enabled /\ g.redis_client

\* a get_redis() that hands out the client whether or not its ping succeeded
get_redis_unchecked(g) == g.redis_client

\* TRUE iff get_redis() is a client (not None)
get_redis(g) == IF g.redis_enabled THEN g.redis_client ELSE FALSE

get_cache_mode(g) ==
    IF g.CACHE_MODE = "full" /\ is_db_enabled(g) /\ is_redis_enabled(g) THEN "full"
    ELSE IF g.CACHE_MODE \in {"full", "sqlite"} /\ is_db_enabled(g) THEN "sqlite"
    ELSE IF g.CACHE_MODE \in {"full", "redis"} /\ is_redis_enabled(g) THEN "redis"
    ELSE IF g.CACHE_MODE = "none" THEN "none"
    ELSE "memory"

\* outcomes of one attempt to open a tier
DbOutcomes == {"ok", "engine_error", "connect_error"}
RedisOutcomes == {"ok", "url_error", "ping_error"}

RECURSIVE set_cache_mode(_, _, _, _)
RECURSIVE init_db(_, _, _)
RECURSIVE init_redis(_, _, _)

set_cache_mode(g, mode, dbOut, rdOut) ==
    IF mode \in Modes
    THEN LET g1 == [g EXCEPT !.CACHE_MODE = mode]
         IN IF mode \in {"full", "sqlite"} /\ ~is_db_enabled(g1)
            THEN init_db(g1, dbOut, rdOut)
            ELSE g1
    ELSE [g EXCEPT !.CACHE_MODE = "full"]

init_db(g, dbOut, rdOut) ==
    IF g.engine THEN g
    ELSE LET g1 == CASE dbOut = "ok" -> [g EXCEPT !.engine = TRUE, !.db_enabled = TRUE]
                     [] dbOut = "engine_error" -> [g EXCEPT !.db_enabled = FALSE]
                     [] dbOut = "connect_error" ->
                            [g EXCEPT !.engine = TRUE, !.db_enabled = FALSE]
             g2 == IF dbOut # "ok" /\ g1.CACHE_MODE = "sqlite"
                   THEN set_cache_mode(g1, "redis", dbOut, rdOut)
                   ELSE g1
         IN init_redis(g2, dbOut, rdOut)

init_redis(g, dbOut, rdOut) ==
    IF g.redis_client THEN g
    ELSE IF g.CACHE_MODE = "none" THEN [g EXCEPT !.redis_enabled = FALSE]
    ELSE LET g1 == CASE rdOut = "ok" ->
                            [g EXCEPT !.redis_client = TRUE, !.redis_enabled = TRUE]
                     [] rdOut = "url_error" -> [g EXCEPT !.redis_enabled = FALSE]
                     [] rdOut = "ping_error" ->
                            [g EXCEPT !.redis_client = TRUE, !.redis_enabled = FALSE]
         IN IF rdOut # "ok" /\ g1.CACHE_MODE = "redis"
            THEN set_cache_mode(g1, IF is_db_enabled(g1) THEN "sqlite" ELSE "memory",
                                dbOut, rdOut)
            ELSE g1

\* cache.py: PersistentCache.__init__
PersistentCache(g) == [redis |-> get_redis(g), cache_mode |-> get_cache_mode(g)]

SetGlobals(g) ==
    /\ CACHE_MODE' = g.CACHE_MODE
    /\ _engine' = g.engine
    /\ _db_enabled' = g.db_enabled
    /\ _redis_client' = g.redis_client
    /\ _redis_enabled' = g.redis_enabled

-----------------------------------------------------------------------------
(* cache.py: fast-cache and fallback-store helpers of PersistentCache.     *)
(* self is the facade instance [redis, cache_mode]; rd is the fast cache's *)
(* content, mc the _memory_cache; rfail says that the fast cache raises on *)
(* every command of the call.  A list-or-None result is modelled by the    *)
(* list, None being the empty list: every caller only tests its truth.     *)

\* if x: for an optional string
Truthy(v) == v # None /\ v.s # ""

\* a fast-cache entry: the pickled value (the other fields record who wrote it)
Entry(val, by, data_type, ticker) ==
    [val |-> val, by |-> by, data_type |-> data_type, ticker |-> ticker]

\* a _redis_set that stores nothing
_redis_set_dropping(self, rd, key, entry, rfail) == rd

_redis_get(self, rd, key, rfail) ==
    IF ~self.redis THEN <<>>
    ELSE IF rfail THEN <<>>
    ELSE IF key \in DOMAIN rd THEN rd[key].val
    ELSE <<>>

\* the fast cache after _redis_set(key, value)
_redis_set(self, rd, key, entry, rfail) ==
    IF ~self.redis THEN rd
    ELSE IF rfail THEN rd
    ELSE [k \in DOMAIN rd \cup {key} |-> IF k = key THEN entry ELSE rd[k]]

\* for key in self.redis.scan_iter(prefix + "*"): self.redis.delete(key)
ScanDelete(rd, prefix) ==
    [k \in {x \in DOMAIN rd : ~GlobMatch(prefix, x)} |-> rd[k]]

Get(item, field) == IF field \in DOMAIN item THEN item[field] ELSE ""

StartField(cache_type) ==
    IF cache_type = "prices" THEN "time"
    ELSE IF cache_type = "company_news" THEN "date"
    ELSE "filing_date"

EndField(cache_type) ==
    IF cache_type = "prices" THEN "time"
    ELSE IF cache_type = "company_news" THEN "date"
    ELSE IF cache_type = "insider_trades" THEN "filing_date"
    ELSE "report_period"

\* data[:limit]
Slice(data, limit) ==
    IF limit = None THEN data
    ELSE SubSeq(data, 1, IF limit.n < Len(data) THEN limit.n ELSE Len(data))

\* filters maps the names of the keyword arguments passed to their values
_memory_get(mc, cache_type, ticker, filters) ==
    IF ticker \notin DOMAIN mc[cache_type] THEN Return(<<>>)
    ELSE
    LET data0 == mc[cache_type][ticker]
        byStart == "start_date" \in DOMAIN filters /\ data0 # <<>>
                   /\ StartField(cache_type) \in DOMAIN data0[1]
        FromStart(item) == StrLE(filters.start_date.s,
                                 SplitT0(Get(item, StartField(cache_type))))
        data1 == IF byStart THEN SelectSeq(data0, FromStart) ELSE data0
        byEnd == "end_date" \in DOMAIN filters /\ data1 # <<>>
                 /\ EndField(cache_type) \in DOMAIN data1[1]
        ToEnd(item) == StrLE(SplitT0(Get(item, EndField(cache_type))),
                             filters.end_date.s)
        data2 == IF byEnd THEN SelectSeq(data1, ToEnd) ELSE data1
        data3 == IF "limit" \in DOMAIN filters /\ data2 # <<>>
                 THEN Slice(data2, filters.limit) ELSE data2
    IN IF byStart /\ filters.start_date = None THEN Raise("TypeError")
       ELSE IF byEnd /\ filters.end_date = None THEN Raise("TypeError")
       ELSE Return(data3)

\* a merge in which an incoming record replaces the existing record of its key
_merge_data_replacing(existing, new_data, key_field) ==
    LET NotIncoming(item) ==
            \A i \in DOMAIN new_data : new_data[i][key_field] # item[key_field]
    IN SelectSeq(existing, NotIncoming) \o new_data

KeysOf(list, key_field) == {list[i][key_field] : i \in DOMAIN list}

_merge_data(existing, new_data, key_field) ==
    IF existing = <<>> THEN new_data
    ELSE LET Absent(item) == item[key_field] \notin KeysOf(existing, key_field)
         IN existing \o SelectSeq(new_data, Absent)

\* _memory_cache[cache_type].get(ticker, [])
MemoryList(mc, cache_type, ticker) ==
    IF ticker \in DOMAIN mc[cache_type] THEN mc[cache_type][ticker] ELSE <<>>

\* the _memory_cache after _memory_set(cache_type, ticker, data, key_field)
_memory_set(mc, cache_type, ticker, data, key_field) ==
    LET merged == _merge_data(MemoryList(mc, cache_type, ticker), data, key_field)
    IN [mc EXCEPT ![cache_type] =
           [t \in DOMAIN mc[cache_type] \cup {ticker} |->
               IF t = ticker THEN merged ELSE mc[cache_type][t]]]

-----------------------------------------------------------------------------
(* cache.py: prices.  A price dict is [time, close], close standing for    *)
(* the mutable fields open, close, high, low and volume; a row of the      *)
(* prices table is [ticker, time, close].  session says that               *)
(* with_db_session passed a session (the durable store is enabled), else   *)
(* db is None.                                                             *)

\* query.order_by(field) or order_by(field.desc()): rows of equal field keep table order
RECURSIVE InsertBy(_, _, _, _)
InsertBy(sorted, row, field, desc) ==
    IF sorted = <<>> THEN <<row>>
    ELSE IF (IF desc THEN StrLT(Head(sorted)[field], row[field])
                     ELSE StrLT(row[field], Head(sorted)[field]))
    THEN <<row>> \o sorted
    ELSE <<Head(sorted)>> \o InsertBy(Tail(sorted), row, field, desc)

RECURSIVE OrderBy(_, _, _)
OrderBy(rows, field, desc) ==
    IF rows = <<>> THEN <<>>
    ELSE InsertBy(OrderBy(SubSeq(rows, 1, Len(rows) - 1), field, desc),
                  rows[Len(rows)], field, desc)

QueryPrices(rows, ticker, start_date, end_date) ==
    LET Match(r) == /\ r.ticker = ticker
                    /\ Truthy(start_date) => StrLE(start_date.s, r.time)
                    /\ Truthy(end_date) => StrLE(r.time, end_date.s)
    IN OrderBy(SelectSeq(rows, Match), "time", FALSE)

\* a get_prices that asks the durable store before the fast cache
get_prices_durable_first(self, g, tables, rd, mc, ticker, start_date, end_date, rfail) ==
    LET cache_key == generate_cache_key("prices",
                         << <<"ticker", PyStr(ticker)>>, <<"start_date", start_date>>,
                            <<"end_date", end_date>> >>)
        cached_data == _redis_get(self, rd, cache_key, rfail)
        results == IF is_db_enabled(g)
                   THEN QueryPrices(tables.prices, ticker, start_date, end_date)
                   ELSE <<>>
    IN IF results # <<>> THEN [ret |-> Return(results), redis |-> rd]
       ELSE [ret |-> Return(cached_data), redis |-> rd]

\* the result [ret, redis] of get_prices
get_prices(self, g, tables, rd, mc, ticker, start_date, end_date, rfail) ==
    LET session == is_db_enabled(g)
        cache_key == generate_cache_key("prices",
                         << <<"ticker", PyStr(ticker)>>, <<"start_date", start_date>>,
                            <<"end_date", end_date>> >>)
        cached_data == _redis_get(self, rd, cache_key, rfail)
        results == IF session THEN QueryPrices(tables.prices, ticker, start_date, end_date)
                   ELSE <<>>
        memory == _memory_get(mc, "prices", ticker,
                              [start_date |-> start_date, end_date |-> end_date])
    IN IF self.redis /\ cached_data # <<>> THEN [ret |-> Return(cached_data), redis |-> rd]
       ELSE IF results # <<>>
       THEN [ret |-> Return(results),
             redis |-> _redis_set(self, rd, cache_key,
                                  Entry(results, "get", "prices", ticker), rfail)]
       ELSE IF self.cache_mode = "memory" \/ ~is_db_enabled(g)
       THEN IF memory.kind = "raise" THEN [ret |-> memory, redis |-> rd]
            ELSE IF memory.val # <<>>
            THEN [ret |-> memory,
                  redis |-> _redis_set(self, rd, cache_key,
                                       Entry(memory.val, "get", "prices", ticker), rfail)]
            ELSE [ret |-> Return(<<>>), redis |-> rd]
       ELSE [ret |-> Return(<<>>), redis |-> rd]

\* db.query(Price).filter(ticker, time).first() on the committed rows: its index, or 0
FirstPrice(rows, ticker, time_val) ==
    LET hits == {i \in DOMAIN rows : rows[i].ticker = ticker /\ rows[i].time = time_val}
    IN IF hits = {} THEN 0 ELSE CHOOSE i \in hits : \A j \in hits : i <= j

\* a loop iteration that updates an existing row whatever force_update says
set_prices_item_overwriting(t, ticker, item, force_update) ==
    LET hits == {i \in DOMAIN t.rows : t.rows[i].ticker = ticker /\ t.rows[i].time = item.time}
    IN IF hits # {}
       THEN [t EXCEPT !.rows = [i \in DOMAIN t.rows |->
                                   IF i \in hits THEN [t.rows[i] EXCEPT !.close = item.close]
                                   ELSE t.rows[i]]]
       ELSE [t EXCEPT !.added = Append(@, [ticker |-> ticker, time |-> item.time,
                                           close |-> item.close])]

\* one iteration of the loop of set_prices: t is [rows, added], the committed rows as
\* the session sees them and the rows added to the session (autoflush is off)
set_prices_item(t, ticker, item, force_update) ==
    LET existing == FirstPrice(t.rows, ticker, item.time)
    IN IF existing # 0 /\ ~force_update THEN t
       ELSE IF existing # 0 THEN [t EXCEPT !.rows[existing].close = item.close]
       ELSE [t EXCEPT !.added = Append(@, [ticker |-> ticker, time |-> item.time,
                                           close |-> item.close])]

RECURSIVE set_prices_loop(_, _, _, _)
set_prices_loop(t, ticker, data, force_update) ==
    IF data = <<>> THEN t
    ELSE set_prices_loop(set_prices_item(t, ticker, Head(data), force_update),
                         ticker, Tail(data), force_update)

\* the prices table after db.commit()
CommitPrices(rows, ticker, data, force_update) ==
    LET t == set_prices_loop([rows |-> rows, added |-> <<>>], ticker, data, force_update)
    IN t.rows \o t.added

\* the result [ret, prices, redis, memory] of set_prices; dbfail says that the durable
\* transaction raises
set_prices(self, g, tables, rd, mc, ticker, data, force_update, rfail, dbfail) ==
    LET session == is_db_enabled(g)
        success == ~(self.redis /\ rfail)
        rd1 == IF self.redis /\ ~rfail
               THEN _redis_set(self, ScanDelete(rd, "prices:ticker:" \o ticker),
                               generate_cache_key("prices", << <<"ticker", PyStr(ticker)>> >>),
                               Entry(data, "set", "prices", ticker), rfail)
               ELSE rd
        db_success == ~(session /\ dbfail)
        prices1 == IF session /\ ~dbfail
                   THEN CommitPrices(tables.prices, ticker, data, force_update)
                   ELSE tables.prices
        mc1 == IF ~session \/ ~db_success
               THEN _memory_set(mc, "prices", ticker, data, "time")
               ELSE mc
    IN IF data = <<>>
       THEN [ret |-> Return(FALSE), prices |-> tables.prices, redis |-> rd, memory |-> mc]
       ELSE [ret |-> Return(success \/ db_success \/ (~session /\ ~self.redis)),
             prices |-> prices1, redis |-> rd1, memory |-> mc1]

-----------------------------------------------------------------------------
(* db_models.py: the mapped classes of the module and the attributes each  *)
(* one has beside id, created_at and updated_at.  Reading a class or an    *)
(* attribute that is not here raises AttributeError.                       *)

db_models ==
    [Price |-> {"ticker", "time", "open", "close", "high", "low", "volume"},
     FinancialMetric |-> {"ticker", "report_period", "period", "currency", "market_cap",
                          "enterprise_value", "pe_ratio", "pb_ratio", "ps_ratio",
                          "ev_to_ebitda", "roe", "roa", "gross_margin", "operating_margin",
                          "net_margin", "revenue_growth", "earnings_growth", "dividend_yield",
                          "payout_ratio", "current_ratio", "quick_ratio", "debt_to_equity",
                          "interest_coverage"},
     LineItem |-> {"ticker", "report_period", "period_type", "statement_type", "label",
                   "value", "unit"},
     InsiderTrade |-> {"ticker", "filing_date", "insider_name", "position",
                       "transaction_type", "transaction_date", "shares", "price_per_share",
                       "total_value", "shares_owned_after"},
     News |-> {"ticker", "date", "title", "summary", "author", "source", "url",
               "sentiment", "categories", "entities"}]

\* hasattr(db_models.<cls>, attr), False too when db_models has no such class
HasAttr(cls, attr) == cls \in DOMAIN db_models /\ attr \in db_models[cls]

\* query.first(): the least of the indices that match, or 0
FirstOf(hits) == IF hits = {} THEN 0 ELSE CHOOSE i \in hits : \A j \in hits : i <= j

\* an optional string compared in SQL: NULL satisfies no comparison
SqlGE(v, bound) == v # None /\ StrLE(bound, v.s)
SqlLE(v, bound) == v # None /\ StrLE(v.s, bound)

-----------------------------------------------------------------------------
(* cache.py: financial metrics.  A metrics dict is [ticker, report_period, *)
(* period, pe_ratio].  The functions name db_models.FinancialMetrics.      *)

QueryFinancialMetrics(rows, ticker, end_date, period, limit) ==
    LET Match(r) == /\ r.ticker = ticker
                    /\ r.period = period
                    /\ Truthy(end_date) => StrLE(r.report_period, end_date.s)
    IN Slice(OrderBy(SelectSeq(rows, Match), "report_period", TRUE), PyInt(limit))

\* the result [ret, redis] of get_financial_metrics
get_financial_metrics(self, g, tables, rd, mc, ticker, end_date, period, limit, rfail) ==
    LET session == is_db_enabled(g)
        cache_key == generate_cache_key("metrics",
                         << <<"ticker", PyStr(ticker)>>, <<"end_date", end_date>>,
                            <<"period", PyStr(period)>>, <<"limit", PyInt(limit)>> >>)
        cached_data == _redis_get(self, rd, cache_key, rfail)
        results == IF session
                   THEN QueryFinancialMetrics(tables.financial_metrics, ticker, end_date,
                                              period, limit)
                   ELSE <<>>
        memory == _memory_get(mc, "financial_metrics", ticker,
                              [end_date |-> end_date, limit |-> PyInt(limit)])
        OfPeriod(item) == Get(item, "period") = period
    IN IF self.redis /\ cached_data # <<>> THEN [ret |-> Return(cached_data), redis |-> rd]
       ELSE IF session /\ "FinancialMetrics" \notin DOMAIN db_models
       THEN [ret |-> Raise("AttributeError"), redis |-> rd]
       ELSE IF results # <<>>
       THEN [ret |-> Return(results),
             redis |-> _redis_set(self, rd, cache_key,
                                  Entry(results, "get", "metrics", ticker), rfail)]
       ELSE IF self.cache_mode = "memory" \/ ~is_db_enabled(g)
       THEN IF memory.kind = "raise" THEN [ret |-> memory, redis |-> rd]
            ELSE IF SelectSeq(memory.val, OfPeriod) # <<>>
            THEN [ret |-> Return(SelectSeq(memory.val, OfPeriod)),
                  redis |-> _redis_set(self, rd, cache_key,
                                       Entry(SelectSeq(memory.val, OfPeriod), "get",
                                             "metrics", ticker), rfail)]
            ELSE [ret |-> Return(<<>>), redis |-> rd]
       ELSE [ret |-> Return(<<>>), redis |-> rd]

\* one iteration of the loop of a set_ function works on t = [rows, base, added,
\* raised]: the rows of the table with the updates of the session, the rows as
\* committed (queries see these, autoflush is off), the rows added to the session,
\* and whether a statement of the loop raised
set_financial_metrics_item(t, ticker, item, force_update) ==
    LET existing == FirstOf({i \in DOMAIN t.base :
                                /\ t.base[i].ticker = ticker
                                /\ t.base[i].report_period = item.report_period
                                /\ t.base[i].period = item.period})
    IN IF "FinancialMetrics" \notin DOMAIN db_models THEN [t EXCEPT !.raised = TRUE]
       ELSE IF existing # 0 /\ ~force_update THEN t
       ELSE IF existing # 0 THEN [t EXCEPT !.rows[existing] = item]
       ELSE [t EXCEPT !.added = Append(@, item)]

RECURSIVE set_financial_metrics_loop(_, _, _, _)
set_financial_metrics_loop(t, ticker, data, force_update) ==
    IF data = <<>> \/ t.raised THEN t
    ELSE set_financial_metrics_loop(
             set_financial_metrics_item(t, ticker, Head(data), force_update),
             ticker, Tail(data), force_update)

\* the state of a session that has run nothing yet
Session(rows) == [rows |-> rows, base |-> rows, added |-> <<>>, raised |-> FALSE]

\* what would follow the loop if the handler did not roll the session back
AfterLoop_without_rollback(self, session, rows, rd, t, prefix, rfail, dbfail) ==
    IF ~session THEN [ret |-> Raise("AttributeError"), rows |-> rows, redis |-> rd]
    ELSE IF t.raised \/ dbfail
    THEN [ret |-> Return(FALSE), rows |-> t.rows \o t.added, redis |-> rd]
    ELSE IF ~self.redis \/ rfail
    THEN [ret |-> Return(FALSE), rows |-> t.rows \o t.added, redis |-> rd]
    ELSE [ret |-> Return(TRUE), rows |-> t.rows \o t.added,
          redis |-> ScanDelete(rd, prefix)]

\* what follows the loop in set_financial_metrics, set_line_items, set_insider_trades
\* and set_company_news, as [ret, rows, redis]: with db None the loop's db.query and
\* the handler's db.rollback() raise; a raise in the loop or in the commit is rolled
\* back; self.redis.scan_iter raises after the commit when self.redis is None
AfterLoop(self, session, rows, rd, t, prefix, rfail, dbfail) ==
    IF ~session THEN [ret |-> Raise("AttributeError"), rows |-> rows, redis |-> rd]
    ELSE IF t.raised \/ dbfail THEN [ret |-> Return(FALSE), rows |-> rows, redis |-> rd]
    ELSE IF ~self.redis \/ rfail
    THEN [ret |-> Return(FALSE), rows |-> t.rows \o t.added, redis |-> rd]
    ELSE [ret |-> Return(TRUE), rows |-> t.rows \o t.added,
          redis |-> ScanDelete(rd, prefix)]

\* the result [ret, rows, redis] of set_financial_metrics
set_financial_metrics(self, g, tables, rd, ticker, data, force_update, rfail, dbfail) ==
    IF data = <<>>
    THEN [ret |-> Return(FALSE), rows |-> tables.financial_metrics, redis |-> rd]
    ELSE AfterLoop(self, is_db_enabled(g), tables.financial_metrics, rd,
                   set_financial_metrics_loop(Session(tables.financial_metrics), ticker,
                                              data, force_update),
                   "metrics:ticker:" \o ticker, rfail, dbfail)

-----------------------------------------------------------------------------
(* cache.py: line items.  A line-item dict is [report_period, period,      *)
(* currency, revenue], revenue standing for the fields kept as JSON data.  *)
(* The functions read LineItem.period, .currency and .data.                *)

QueryLineItems(rows, ticker, end_date, period) ==
    LET Match(r) == /\ r.ticker = ticker
                    /\ r.period = period
                    /\ Truthy(end_date) => StrLE(r.report_period, end_date.s)
    IN OrderBy(SelectSeq(rows, Match), "report_period", TRUE)

\* the result [ret, redis] of get_line_items
get_line_items(self, g, tables, rd, ticker, end_date, period, rfail) ==
    LET session == is_db_enabled(g)
        cache_key == generate_cache_key("line_items",
                         << <<"ticker", PyStr(ticker)>>, <<"end_date", end_date>>,
                            <<"period", PyStr(period)>> >>)
        cached_data == _redis_get(self, rd, cache_key, rfail)
        results == QueryLineItems(tables.line_items, ticker, end_date, period)
    IN IF cached_data # <<>> THEN [ret |-> Return(cached_data), redis |-> rd]
       ELSE IF ~session \/ ~HasAttr("LineItem", "period")
       THEN [ret |-> Raise("AttributeError"), redis |-> rd]
       ELSE [ret |-> Return(results),
             redis |-> IF results # <<>>
                       THEN _redis_set(self, rd, cache_key,
                                       Entry(results, "get", "line_items", ticker), rfail)
                       ELSE rd]

set_line_items_item(t, ticker, item, force_update) ==
    LET existing == FirstOf({i \in DOMAIN t.base :
                                /\ t.base[i].ticker = ticker
                                /\ t.base[i].report_period = item.report_period
                                /\ t.base[i].period = item.period})
        row == [ticker |-> ticker, report_period |-> item.report_period,
                period |-> item.period, currency |-> item.currency,
                revenue |-> item.revenue]
    IN IF ~HasAttr("LineItem", "period") THEN [t EXCEPT !.raised = TRUE]
       ELSE IF existing # 0 /\ ~force_update THEN t
       ELSE IF existing # 0
       THEN [t EXCEPT !.rows[existing].currency = item.currency,
                      !.rows[existing].revenue = item.revenue]
       ELSE [t EXCEPT !.added = Append(@, row)]

RECURSIVE set_line_items_loop(_, _, _, _)
set_line_items_loop(t, ticker, data, force_update) ==
    IF data = <<>> \/ t.raised THEN t
    ELSE set_line_items_loop(set_line_items_item(t, ticker, Head(data), force_update),
                             ticker, Tail(data), force_update)

\* the result [ret, rows, redis] of set_line_items
set_line_items(self, g, tables, rd, ticker, data, force_update, rfail, dbfail) ==
    IF data = <<>> THEN [ret |-> Return(FALSE), rows |-> tables.line_items, redis |-> rd]
    ELSE AfterLoop(self, is_db_enabled(g), tables.line_items, rd,
                   set_line_items_loop(Session(tables.line_items), ticker, data,
                                       force_update),
                   "line_items:ticker:" \o ticker, rfail, dbfail)

-----------------------------------------------------------------------------
(* cache.py: insider trades.  An insider-trade dict is [filing_date, name, *)
(* transaction_date, shares], name and transaction_date optional; a row of *)
(* the table is [ticker, filing_date, transaction_date, shares]: the model *)
(* class has no attribute name, so a new row does not keep it.             *)

QueryInsiderTrades(rows, ticker, start_date, end_date) ==
    LET Match(r) ==
            /\ r.ticker = ticker
            /\ Truthy(start_date) => \/ SqlGE(r.transaction_date, start_date.s)
                                     \/ StrLE(start_date.s, r.filing_date)
            /\ Truthy(end_date) => \/ SqlLE(r.transaction_date, end_date.s)
                                   \/ StrLE(r.filing_date, end_date.s)
    IN OrderBy(SelectSeq(rows, Match), "filing_date", TRUE)

\* the result [ret, redis] of get_insider_trades
get_insider_trades(self, g, tables, rd, ticker, start_date, end_date, rfail) ==
    LET session == is_db_enabled(g)
        cache_key == generate_cache_key("insider_trades",
                         << <<"ticker", PyStr(ticker)>>, <<"start_date", start_date>>,
                            <<"end_date", end_date>> >>)
        cached_data == _redis_get(self, rd, cache_key, rfail)
        results == QueryInsiderTrades(tables.insider_trades, ticker, start_date, end_date)
    IN IF cached_data # <<>> THEN [ret |-> Return(cached_data), redis |-> rd]
       ELSE IF ~session THEN [ret |-> Raise("AttributeError"), redis |-> rd]
       ELSE [ret |-> Return(results),
             redis |-> IF results # <<>>
                       THEN _redis_set(self, rd, cache_key,
                                       Entry(results, "get", "insider_trades", ticker),
                                       rfail)
                       ELSE rd]

set_insider_trades_item(t, ticker, item, force_update) ==
    LET existing == FirstOf({i \in DOMAIN t.base :
                                /\ t.base[i].ticker = ticker
                                /\ t.base[i].filing_date = item.filing_date
                                /\ Truthy(item.transaction_date) =>
                                       t.base[i].transaction_date = item.transaction_date})
        row == [ticker |-> ticker, filing_date |-> item.filing_date,
                transaction_date |-> item.transaction_date, shares |-> item.shares]
    IN IF Truthy(item.name) /\ ~HasAttr("InsiderTrade", "name")
       THEN [t EXCEPT !.raised = TRUE]
       ELSE IF existing # 0 /\ ~force_update THEN t
       ELSE IF existing # 0 THEN [t EXCEPT !.rows[existing] = row]
       ELSE [t EXCEPT !.added = Append(@, row)]

RECURSIVE set_insider_trades_loop(_, _, _, _)
set_insider_trades_loop(t, ticker, data, force_update) ==
    IF data = <<>> \/ t.raised THEN t
    ELSE set_insider_trades_loop(
             set_insider_trades_item(t, ticker, Head(data), force_update),
             ticker, Tail(data), force_update)

\* the result [ret, rows, redis] of set_insider_trades
set_insider_trades(self, g, tables, rd, ticker, data, force_update, rfail, dbfail) ==
    IF data = <<>>
    THEN [ret |-> Return(FALSE), rows |-> tables.insider_trades, redis |-> rd]
    ELSE AfterLoop(self, is_db_enabled(g), tables.insider_trades, rd,
                   set_insider_trades_loop(Session(tables.insider_trades), ticker, data,
                                           force_update),
                   "insider_trades:ticker:" \o ticker, rfail, dbfail)

-----------------------------------------------------------------------------
(* cache.py: company news.  A news dict is [date, title, url, summary],    *)
(* url and summary optional; a row of the table is the dict and its ticker.*)

QueryCompanyNews(rows, ticker, start_date, end_date) ==
    LET Match(r) == /\ r.ticker = ticker
                    /\ Truthy(start_date) => StrLE(start_date.s, r.date)
                    /\ Truthy(end_date) => StrLE(r.date, end_date.s)
    IN OrderBy(SelectSeq(rows, Match), "date", TRUE)

\* the result [ret, redis] of get_company_news
get_company_news(self, g, tables, rd, ticker, start_date, end_date, rfail) ==
    LET session == is_db_enabled(g)
        cache_key == generate_cache_key("company_news",
                         << <<"ticker", PyStr(ticker)>>, <<"start_date", start_date>>,
                            <<"end_date", end_date>> >>)
        cached_data == _redis_get(self, rd, cache_key, rfail)
        results == QueryCompanyNews(tables.company_news, ticker, start_date, end_date)
    IN IF cached_data # <<>> THEN [ret |-> Return(cached_data), redis |-> rd]
       ELSE IF ~session THEN [ret |-> Raise("AttributeError"), redis |-> rd]
       ELSE [ret |-> Return(results),
             redis |-> IF results # <<>>
                       THEN _redis_set(self, rd, cache_key,
                                       Entry(results, "get", "company_news", ticker),
                                       rfail)
                       ELSE rd]

\* the loop over item.items() of the branch "existing and not force_update"
FillBlanks(existing, item) ==
    [existing EXCEPT
        !.url = IF @ = None /\ item.url # None THEN item.url ELSE @,
        !.summary = IF @ = None /\ item.summary # None THEN item.summary
                    ELSE IF ~Truthy(@) /\ Truthy(item.summary) THEN item.summary
                    ELSE @]

set_company_news_item(t, ticker, item, force_update) ==
    LET existing == FirstOf({i \in DOMAIN t.base :
                                /\ t.base[i].ticker = ticker
                                /\ t.base[i].date = item.date
                                /\ IF Truthy(item.url) THEN t.base[i].url = item.url
                                   ELSE t.base[i].title = item.title})
        row == [ticker |-> ticker, date |-> item.date, title |-> item.title,
                url |-> item.url, summary |-> item.summary]
    IN IF existing # 0 /\ ~force_update
       THEN [t EXCEPT !.rows[existing] = FillBlanks(@, item)]
       ELSE IF existing # 0 THEN [t EXCEPT !.rows[existing] = row]
       ELSE [t EXCEPT !.added = Append(@, row)]

RECURSIVE set_company_news_loop(_, _, _, _)
set_company_news_loop(t, ticker, data, force_update) ==
    IF data = <<>> \/ t.raised THEN t
    ELSE set_company_news_loop(set_company_news_item(t, ticker, Head(data), force_update),
                               ticker, Tail(data), force_update)

\* the result [ret, rows, redis] of set_company_news
set_company_news(self, g, tables, rd, ticker, data, force_update, rfail, dbfail) ==
    IF data = <<>> THEN [ret |-> Return(FALSE), rows |-> tables.company_news, redis |-> rd]
    ELSE AfterLoop(self, is_db_enabled(g), tables.company_news, rd,
                   set_company_news_loop(Session(tables.company_news), ticker, data,
                                         force_update),
                   "company_news:ticker:" \o ticker, rfail, dbfail)

-----------------------------------------------------------------------------
(* State at import with AUTO_INITIALIZE off: nothing opened, empty stores. *)

Tables == {"prices", "financial_metrics", "line_items", "insider_trades", "company_news"}

EmptyMap == [k \in {} |-> <<>>]

\* cache.py: the _memory_cache literal
EmptyMemoryCache == [c \in Tables |-> EmptyMap]

\* the threads that call the facade
Callers == {1, 2}

\* no session was made yet, and no caller is in a call of the facade
NoSessions == [open |-> {}, made |-> 0]
NoCalls == [c \in Callers |-> [pc |-> "idle", db |-> None]]

\* cache_manager.py: CacheManager.__init__, self.cache = get_cache(); current says that
\* the facade of the manager is the instance that _cache names
CacheManager(cache) == [cache |-> cache, current |-> TRUE]

\* the manager of a process that imported cache_manager when the facade was cache and
\* called init_cache() afterwards
Imported(cache) == [cache |-> cache, current |-> FALSE]

BootGlobals(mode) == [CACHE_MODE |-> mode, engine |-> FALSE, db_enabled |-> TRUE,
                      redis_client |-> FALSE, redis_enabled |-> TRUE]

Boot(mode) ==
    /\ CACHE_MODE = mode
    /\ _engine = FALSE
    /\ _db_enabled = TRUE
    /\ _redis_client = FALSE
    /\ _redis_enabled = TRUE
    /\ pref = mode
    /\ _cache = PersistentCache(BootGlobals(mode))
    /\ _cache_manager = None
    /\ db = [tb \in Tables |-> <<>>]
    /\ redis = EmptyMap
    /\ _memory_cache = EmptyMemoryCache
    /\ sessions = NoSessions
    /\ wrapper = NoCalls

globalVars == <<CACHE_MODE, _engine, _db_enabled, _redis_client, _redis_enabled>>
storeVars == <<db, redis, _memory_cache>>
sessionVars == <<sessions, wrapper>>
facadeVars == <<_cache, _cache_manager>>

-----------------------------------------------------------------------------
(* Tier initialisation as called by the application *)

\* database.init_db()
CallInitDb(dbOut, rdOut) ==
    /\ SetGlobals(init_db(Globals, dbOut, rdOut))
    /\ op' = [name |-> "init_db", dbOut |-> dbOut, rdOut |-> rdOut]
    /\ ret' = Return(None)
    /\ UNCHANGED <<sessionVars, pref, facadeVars, storeVars>>

\* database.init_redis()
CallInitRedis(dbOut, rdOut) ==
    /\ SetGlobals(init_redis(Globals, dbOut, rdOut))
    /\ op' = [name |-> "init_redis", dbOut |-> dbOut, rdOut |-> rdOut]
    /\ ret' = Return(None)
    /\ UNCHANGED <<sessionVars, pref, facadeVars, storeVars>>

\* database.set_cache_mode(mode), mode possibly not a valid mode
CallSetCacheMode(mode, dbOut, rdOut) ==
    /\ SetGlobals(set_cache_mode(Globals, mode, dbOut, rdOut))
    /\ pref' = IF mode \in Modes THEN mode ELSE "full"
    /\ op' = [name |-> "set_cache_mode", mode |-> mode, dbOut |-> dbOut, rdOut |-> rdOut]
    /\ ret' = Return(None)
    /\ UNCHANGED <<sessionVars, facadeVars, storeVars>>

\* cache.init_cache()
InitCache(dbOut, rdOut) ==
    LET g == init_db(Globals, dbOut, rdOut)
    IN /\ SetGlobals(g)
       /\ _cache' = PersistentCache(g)
       /\ _cache_manager' = IF _cache_manager = None THEN None
                            ELSE [_cache_manager EXCEPT !.current = FALSE]
       /\ op' = [name |-> "init_cache", dbOut |-> dbOut, rdOut |-> rdOut]
       /\ ret' = Return(None)
       /\ UNCHANGED <<sessionVars, pref, storeVars>>

InitMode == \E m \in Modes : Boot(m) /\ op = [name |-> "import"] /\ ret = Return(None)

NextMode ==
    \/ \E dbOut \in DbOutcomes, rdOut \in RedisOutcomes : CallInitDb(dbOut, rdOut)
    \/ \E dbOut \in DbOutcomes, rdOut \in RedisOutcomes : CallInitRedis(dbOut, rdOut)
    \/ \E mode \in Modes \cup {"bogus"}, dbOut \in DbOutcomes, rdOut \in RedisOutcomes :
          CallSetCacheMode(mode, dbOut, rdOut)
    \/ \E dbOut \in DbOutcomes, rdOut \in RedisOutcomes : InitCache(dbOut, rdOut)

SpecMode == InitMode /\ [][NextMode]_vars

-----------------------------------------------------------------------------
(* The facade's get and set operations on the five datasets, in every      *)
(* cache mode.  No tier fails after init_cache().                          *)

MaxBatch == 2

\* the default of the parameter limit of get_financial_metrics
DefaultLimit == 10

Tickers == {"A"}
Vals == {1, 2}
Dates == {"2024-01-01"}
PriceTimes == {"2024-01-01T00:00:00"}
DateFilters == {<<None, None>>, <<PyStr("2024-01-01"), PyStr("2024-01-02")>>}
EndDates == {None, PyStr("2024-01-02")}
Periods == {"ttm"}

PriceDicts == [time : PriceTimes, close : Vals]
MetricsDicts == [ticker : Tickers, report_period : Dates, period : Periods, pe_ratio : Vals]
LineItemDicts == [report_period : Dates, period : Periods, currency : {PyStr("USD")},
                  revenue : Vals]
InsiderTradeDicts ==
    [filing_date : Dates, name : {None}, transaction_date : {None}, shares : Vals]
\* a trade that names the insider
NamedTrade == [filing_date |-> "2024-01-01", name |-> PyStr("X"),
               transaction_date |-> None, shares |-> 1]
NewsDicts == [date : Dates, title : {"t"}, url : {None},
              summary : {None, PyStr("s1")}]

\* an enhanced article: it lists the related tickers (the string stands for the list)
EnhancedNews == [date |-> "2024-01-01", title |-> "t", url |-> None,
                 summary |-> PyStr("s1"), related_tickers |-> PyStr("B")]

\* the non-empty lists of at most MaxBatch of the dicts
Batches(dicts) == UNION {[1..n -> dicts] : n \in 1..MaxBatch}

\* get_cache().get_prices(ticker, start_date, end_date)
GetPrices(ticker, start_date, end_date, rfail) ==
    LET r == get_prices(_cache, Globals, db, redis, _memory_cache,
                        ticker, start_date, end_date, rfail)
    IN /\ redis' = r.redis
       /\ ret' = r.ret
       /\ op' = [name |-> "get_prices", dataset |-> "prices", ticker |-> ticker,
                 start_date |-> start_date, end_date |-> end_date, rfail |-> rfail]
       /\ UNCHANGED <<sessionVars, globalVars, pref, facadeVars, db, _memory_cache>>

\* get_cache().set_prices(ticker, data, force_update)
SetPrices(ticker, data, force_update, rfail, dbfail) ==
    LET r == set_prices(_cache, Globals, db, redis, _memory_cache,
                        ticker, data, force_update, rfail, dbfail)
    IN /\ db' = [db EXCEPT !.prices = r.prices]
       /\ redis' = r.redis
       /\ _memory_cache' = r.memory
       /\ ret' = r.ret
       /\ op' = [name |-> "set_prices", dataset |-> "prices", ticker |-> ticker,
                 data |-> data, force_update |-> force_update, rfail |-> rfail,
                 dbfail |-> dbfail]
       /\ UNCHANGED <<sessionVars, globalVars, pref, facadeVars>>

\* a get_ call that returned r = [ret, redis]
Got(name, dataset, ticker, args, r) ==
    /\ redis' = r.redis
    /\ ret' = r.ret
    /\ op' = [name |-> name, dataset |-> dataset, ticker |-> ticker, args |-> args]
    /\ UNCHANGED <<sessionVars, globalVars, pref, facadeVars, db, _memory_cache>>

\* a set_ call on a table that returned r = [ret, rows, redis]
DidSet(name, dataset, ticker, data, force_update, r) ==
    /\ db' = [db EXCEPT ![dataset] = r.rows]
    /\ redis' = r.redis
    /\ ret' = r.ret
    /\ op' = [name |-> name, dataset |-> dataset, ticker |-> ticker, data |-> data,
              force_update |-> force_update]
    /\ UNCHANGED <<sessionVars, globalVars, pref, facadeVars, _memory_cache>>

\* get_cache().get_financial_metrics(ticker, end_date, period, limit)
GetFinancialMetrics(ticker, end_date, period, limit) ==
    Got("get_financial_metrics", "financial_metrics", ticker, <<end_date, period, limit>>,
        get_financial_metrics(_cache, Globals, db, redis, _memory_cache, ticker, end_date,
                              period, limit, FALSE))

\* get_cache().set_financial_metrics(ticker, data, force_update)
SetFinancialMetrics(ticker, data, force_update) ==
    DidSet("set_financial_metrics", "financial_metrics", ticker, data, force_update,
           set_financial_metrics(_cache, Globals, db, redis, ticker, data, force_update,
                                 FALSE, FALSE))

\* get_cache().get_line_items(ticker, end_date, period)
GetLineItems(ticker, end_date, period) ==
    Got("get_line_items", "line_items", ticker, <<end_date, period>>,
        get_line_items(_cache, Globals, db, redis, ticker, end_date, period, FALSE))

\* get_cache().set_line_items(ticker, data, force_update)
SetLineItems(ticker, data, force_update) ==
    DidSet("set_line_items", "line_items", ticker, data, force_update,
           set_line_items(_cache, Globals, db, redis, ticker, data, force_update,
                          FALSE, FALSE))

\* get_cache().get_insider_trades(ticker, start_date, end_date)
GetInsiderTrades(ticker, start_date, end_date) ==
    Got("get_insider_trades", "insider_trades", ticker, <<start_date, end_date>>,
        get_insider_trades(_cache, Globals, db, redis, ticker, start_date, end_date,
                           FALSE))

\* get_cache().set_insider_trades(ticker, data, force_update)
SetInsiderTrades(ticker, data, force_update) ==
    DidSet("set_insider_trades", "insider_trades", ticker, data, force_update,
           set_insider_trades(_cache, Globals, db, redis, ticker, data, force_update,
                              FALSE, FALSE))

\* get_cache().get_company_news(ticker, start_date, end_date)
GetCompanyNews(ticker, start_date, end_date) ==
    Got("get_company_news", "company_news", ticker, <<start_date, end_date>>,
        get_company_news(_cache, Globals, db, redis, ticker, start_date, end_date, FALSE))

\* get_cache().set_company_news(ticker, data, force_update)
SetCompanyNews(ticker, data, force_update) ==
    DidSet("set_company_news", "company_news", ticker, data, force_update,
           set_company_news(_cache, Globals, db, redis, ticker, data, force_update,
                            FALSE, FALSE))

\* the state after init_cache() at application start, for each configured preference
\* and each outcome of opening the two tiers
Init ==
    \E m \in {"full", "memory", "none"}, dbOut \in {"ok", "connect_error"},
       rdOut \in {"ok", "ping_error"} :
       LET g == init_db(BootGlobals(m), dbOut, rdOut)
       IN /\ CACHE_MODE = g.CACHE_MODE
          /\ _engine = g.engine
          /\ _db_enabled = g.db_enabled
          /\ _redis_client = g.redis_client
          /\ _redis_enabled = g.redis_enabled
          /\ pref = m
          /\ _cache = PersistentCache(g)
          /\ _cache_manager = Imported(PersistentCache(g))
          /\ db = [tb \in Tables |-> <<>>]
          /\ redis = EmptyMap
          /\ _memory_cache = EmptyMemoryCache
          /\ sessions = NoSessions
          /\ wrapper = NoCalls
          /\ op = [name |-> "init_cache", dataset |-> "", dbOut |-> dbOut,
                   rdOut |-> rdOut]
          /\ ret = Return(None)

\* a run works on one dataset: the datasets share no table, no key prefix and no
\* fallback list
Working(dataset) == op.dataset \in {"", dataset}

Next ==
    \/ \E ticker \in Tickers, f \in DateFilters :
          Working("prices") /\ GetPrices(ticker, f[1], f[2], FALSE)
    \/ \E ticker \in Tickers, data \in Batches(PriceDicts), force_update \in BOOLEAN :
          Working("prices") /\ SetPrices(ticker, data, force_update, FALSE, FALSE)
    \/ \E ticker \in Tickers, end_date \in EndDates, period \in Periods :
          Working("financial_metrics")
          /\ GetFinancialMetrics(ticker, end_date, period, DefaultLimit)
    \/ \E ticker \in Tickers, data \in Batches(MetricsDicts), force_update \in BOOLEAN :
          Working("financial_metrics") /\ SetFinancialMetrics(ticker, data, force_update)
    \/ \E ticker \in Tickers, end_date \in EndDates, period \in Periods :
          Working("line_items") /\ GetLineItems(ticker, end_date, period)
    \/ \E ticker \in Tickers, data \in Batches(LineItemDicts), force_update \in BOOLEAN :
          Working("line_items") /\ SetLineItems(ticker, data, force_update)
    \/ \E ticker \in Tickers, f \in DateFilters :
          Working("insider_trades") /\ GetInsiderTrades(ticker, f[1], f[2])
    \/ \E ticker \in Tickers, data \in Batches(InsiderTradeDicts) \cup {<<NamedTrade>>},
          force_update \in BOOLEAN :
          Working("insider_trades") /\ SetInsiderTrades(ticker, data, force_update)
    \/ \E ticker \in Tickers, f \in DateFilters :
          Working("company_news") /\ GetCompanyNews(ticker, f[1], f[2])
    \/ \E ticker \in Tickers, data \in Batches(NewsDicts) \cup {<<EnhancedNews>>},
          force_update \in BOOLEAN :
          Working("company_news") /\ SetCompanyNews(ticker, data, force_update)

Spec == Init /\ [][Next]_vars

-----------------------------------------------------------------------------
(* generate_cache_key applied to bounded inputs *)

MaxParams == 3

ParamValues ==
    [ticker |-> {PyStr("AAPL")},
     start_date |-> {None, PyStr("2024-01-01")},
     end_date |-> {None, PyStr("2024-01-05")},
     period |-> {None, PyStr("ttm")},
     limit |-> {None, PyInt(10)}]

ParamItems == {<<k, v>> : k \in DOMAIN ParamValues, v \in UNION {ParamValues[n] : n \in DOMAIN ParamValues}}

\* the keyword arguments of a call, in insertion order: distinct names, each with one of its values
KwargsInputs ==
    {kw \in UNION {[1..n -> ParamItems] : n \in 0..MaxParams} :
        /\ \A i \in DOMAIN kw : kw[i][2] \in ParamValues[kw[i][1]]
        /\ \A i, j \in DOMAIN kw : i # j => kw[i][1] # kw[j][1]}

InitKey ==
    /\ Boot("full")
    /\ \E dt \in {"prices", "metrics"}, kw \in KwargsInputs :
          op = [name |-> "kwargs", data_type |-> dt, kwargs |-> kw]
    /\ ret = Return(None)

CallGenerateCacheKey ==
    /\ op.name = "kwargs"
    /\ op' = [op EXCEPT !.name = "generate_cache_key"]
    /\ ret' = Return(generate_cache_key(op.data_type, op.kwargs))
    /\ UNCHANGED <<sessionVars, globalVars, pref, facadeVars, storeVars>>

NextKey == CallGenerateCacheKey

SpecKey == InitKey /\ [][NextKey]_vars

-----------------------------------------------------------------------------
(* Properties of generate_cache_key (checked under SpecKey) *)

Orderings(n) == {p \in [1..n -> 1..n] : \A i, j \in 1..n : i # j => p[i] # p[j]}

NonNull(item) == item[2] # None

\* the dataset name followed by ":key:value" for each item, in the order given
RECURSIVE NameThenPairs(_, _)
NameThenPairs(name, items) ==
    IF items = <<>> THEN name
    ELSE NameThenPairs(name \o ":" \o items[1][1] \o ":" \o Format(items[1][2]), Tail(items))

AscendingByKey(items) ==
    \A i \in 1..(Len(items) - 1) : StrLT(items[i][1], items[i + 1][1])

\* C2: generate_cache_key is deterministic and order-independent: the key is the dataset
\* name followed by the key:value pairs of the non-null parameters in ascending key
\* order, it is the same for every insertion order of the parameters, and it equals the
\* key of the parameter map without its null-valued parameters.
C2_KeyOrderIndependent ==
    op.name = "generate_cache_key" =>
        LET kw == op.kwargs
            n == Len(kw)
            present == SelectSeq(kw, NonNull)
            m == Len(present)
        IN /\ \A p \in Orderings(n) :
                 generate_cache_key(op.data_type, [i \in 1..n |-> kw[p[i]]]) = ret.val
           /\ generate_cache_key(op.data_type, present) = ret.val
           /\ \E q \in Orderings(m) :
                 LET items == [i \in 1..m |-> present[q[i]]]
                 IN AscendingByKey(items) /\ ret.val = NameThenPairs(op.data_type, items)

\* C2 witness: parameters inserted out of key order, one of them null
C2_Witness ==
    /\ op.name = "generate_cache_key"
    /\ op.data_type = "prices"
    /\ op.kwargs = << <<"ticker", PyStr("AAPL")>>, <<"start_date", None>>,
                      <<"end_date", PyStr("2024-01-05")>> >>
    /\ ret = Return("prices:end_date:2024-01-05:ticker:AAPL")

-----------------------------------------------------------------------------
(* _merge_data applied to bounded lists of price dicts *)

MaxLen == 2

MergeTimes == {"T1", "T2", "T3"}
MergeDicts == [time : MergeTimes, close : Vals]
MergeLists == UNION {[1..n -> MergeDicts] : n \in 0..MaxLen}

InitMerge ==
    /\ Boot("full")
    /\ \E existing \in MergeLists, new_data \in MergeLists :
          op = [name |-> "lists", existing |-> existing, new_data |-> new_data,
                key_field |-> "time"]
    /\ ret = Return(None)

\* self._merge_data(existing, new_data, key_field)
CallMergeData ==
    /\ op.name = "lists"
    /\ op' = [op EXCEPT !.name = "_merge_data"]
    /\ ret' = Return(_merge_data(op.existing, op.new_data, op.key_field))
    /\ UNCHANGED <<sessionVars, globalVars, pref, facadeVars, storeVars>>

NextMerge == CallMergeData

SpecMerge == InitMerge /\ [][NextMerge]_vars

-----------------------------------------------------------------------------
(* Properties of _merge_data (checked under SpecMerge) *)

\* C6: the fallback merge of an existing list with an incoming batch yields exactly the
\* union of their natural keys, keeps every existing record in its place with its
\* original field values, and appends only incoming records whose natural key was
\* absent from the existing list.
C6_MergeKeepsExisting ==
    op.name = "_merge_data" =>
        LET existing == op.existing
            new_data == op.new_data
            merged == ret.val
        IN /\ KeysOf(merged, "time") = KeysOf(existing, "time") \cup KeysOf(new_data, "time")
           /\ Len(merged) >= Len(existing)
           /\ SubSeq(merged, 1, Len(existing)) = existing
           /\ \A i \in (Len(existing) + 1)..Len(merged) :
                 /\ \E j \in DOMAIN new_data : new_data[j] = merged[i]
                 /\ merged[i].time \notin KeysOf(existing, "time")

\* C6 witness: existing keys {T1, T2}, incoming keys {T2, T3} with another value for T2;
\* the result has T1, T2, T3 and T2 keeps its original value
C6_Witness ==
    /\ op.name = "_merge_data"
    /\ op.existing = <<[time |-> "T1", close |-> 1], [time |-> "T2", close |-> 1]>>
    /\ op.new_data = <<[time |-> "T2", close |-> 2], [time |-> "T3", close |-> 2]>>
    /\ ret = Return(<<[time |-> "T1", close |-> 1], [time |-> "T2", close |-> 1],
                      [time |-> "T3", close |-> 2]>>)

-----------------------------------------------------------------------------
(* Properties of the facade (checked under Spec) *)

GetNames == {"get_prices", "get_financial_metrics", "get_line_items",
             "get_insider_trades", "get_company_news"}
SetNames == {"set_prices", "set_financial_metrics", "set_line_items",
             "set_insider_trades", "set_company_news"}

\* the dataset name in the fast-cache keys of a dataset
KeyName(dataset) == IF dataset = "financial_metrics" THEN "metrics" ELSE dataset

BothDown == ~is_db_enabled(Globals) /\ ~is_redis_enabled(Globals)

\* C1: after any set for a ticker returns, the fast cache holds no entry of that ticker
\* and dataset that an earlier get wrote, whatever filters that get used.
C1_SetInvalidatesCachedGets ==
    op.name \in SetNames =>
        \A k \in DOMAIN redis :
            ~(/\ redis[k].by = "get"
              /\ redis[k].ticker = op.ticker
              /\ redis[k].data_type = KeyName(op.dataset))

\* the close last written for a time by a batch
LatestClose(data, time) ==
    data[CHOOSE i \in DOMAIN data :
            /\ data[i].time = time
            /\ \A j \in DOMAIN data : j > i => data[j].time # time].close

\* C3: after set_prices with force_update=True returned success, a following get_prices
\* of that ticker whose filters cover the records returns, for every record written,
\* the latest written values, in every cache mode.
C3_OverwriteReadsLatest ==
    [][(/\ op.name = "set_prices"
        /\ op.force_update
        /\ ret = Return(TRUE)
        /\ op'.name = "get_prices"
        /\ op'.ticker = op.ticker)
       => /\ ret'.kind = "return"
          /\ \A i \in DOMAIN op.data :
                /\ \E j \in DOMAIN ret'.val : ret'.val[j].time = op.data[i].time
                /\ \A j \in DOMAIN ret'.val :
                      ret'.val[j].time = op.data[i].time
                      => ret'.val[j].close = LatestClose(op.data, op.data[i].time)]_vars

\* every record of the list before is at its place in the list after, unchanged
Kept(before, after) ==
    Len(before) <= Len(after) /\ SubSeq(after, 1, Len(before)) = before

\* C4: a write with force_update=False of price bars, financial metrics, line items or
\* insider trades leaves every record that the durable store or the fallback store
\* holds with the values it has (first-write-wins): a second write of a natural key
\* with other field values changes nothing of the stored record.
C4_FirstWriteWins ==
    [][(op'.name \in SetNames \ {"set_company_news"} /\ ~op'.force_update)
       => /\ \A tb \in Tables : Kept(db[tb], db'[tb])
          /\ \A tb \in Tables, ticker \in Tickers :
                Kept(MemoryList(_memory_cache, tb, ticker),
                     MemoryList(_memory_cache', tb, ticker))]_vars

\* C4 witness: a set_prices without force_update of one bar whose time the durable
\* store holds with another close
C4_Witness ==
    /\ op.name = "set_prices"
    /\ ~op.force_update
    /\ ret = Return(TRUE)
    /\ Len(op.data) = 1
    /\ \E i \in DOMAIN db.prices :
          /\ db.prices[i].ticker = op.ticker
          /\ db.prices[i].time = op.data[1].time
          /\ db.prices[i].close # op.data[1].close

\* no two elements of the list have the same key
Distinct(list, Key(_)) ==
    \A i, j \in DOMAIN list : i # j => Key(list[i]) # Key(list[j])

\* C5: no tier (durable store, fallback store) holds two records of one entity type
\* with the same natural key, whatever batches were written.
C5_NoDuplicateKeys ==
    LET PriceKey(r) == <<r.ticker, r.time>>
        ReportKey(r) == <<r.ticker, r.report_period, r.period>>
        TradeKey(r) == <<r.ticker, r.filing_date, r.transaction_date>>
        NewsKey(r) == <<r.ticker, r.date, r.title, r.url>>
        TimeKey(r) == r.time
    IN /\ Distinct(db.prices, PriceKey)
       /\ Distinct(db.financial_metrics, ReportKey)
       /\ Distinct(db.line_items, ReportKey)
       /\ Distinct(db.insider_trades, TradeKey)
       /\ Distinct(db.company_news, NewsKey)
       /\ \A ticker \in Tickers :
             Distinct(MemoryList(_memory_cache, "prices", ticker), TimeKey)

\* C8: with both tiers unavailable and preference full or memory, get_cache_mode() is
\* memory, set_prices returns true, and a get_prices of that ticker following a
\* set_prices returns exactly the records written, which the fallback store holds.
C8_MemoryModeServesWrites ==
    [][(BothDown /\ pref \in {"full", "memory"})
       => /\ get_cache_mode(Globals) = "memory"
          /\ op'.name = "set_prices" => ret' = Return(TRUE)
          /\ (/\ op.name = "set_prices"
              /\ MemoryList(_memory_cache, "prices", op.ticker) = op.data
              /\ op'.name = "get_prices"
              /\ op'.ticker = op.ticker)
             => ret' = Return(op.data)]_vars

\* C9: in Disabled mode (preference none, both tiers unavailable) set_prices returns
\* true and stores nothing in any tier, and get_prices returns the empty list before
\* and after it.
C9_DisabledModeStoresNothing ==
    [][(BothDown /\ pref = "none")
       => /\ op'.name = "set_prices" => (ret' = Return(TRUE) /\ UNCHANGED storeVars)
          /\ op'.name = "get_prices" => ret' = Return(<<>>)]_vars

\* no tier holds data of the dataset for the ticker
NoData(dataset, ticker) ==
    /\ \A i \in DOMAIN db[dataset] : db[dataset][i].ticker # ticker
    /\ MemoryList(_memory_cache, dataset, ticker) = <<>>
    /\ \A k \in DOMAIN redis :
          ~(redis[k].ticker = ticker /\ redis[k].data_type = KeyName(dataset))

\* C10: for every entity type and every cache mode, a get for which no tier yields data
\* returns the empty sequence and does not raise, also when the durable store is
\* unavailable.
C10_EmptyGetNeverRaises ==
    (op.name \in GetNames /\ NoData(op.dataset, op.ticker)) => ret = Return(<<>>)

-----------------------------------------------------------------------------
(* Properties of the cache mode (checked under SpecMode) *)

\* strength of a mode in the order full > sqlite > redis > memory > none
ModeRank(mode) ==
    CASE mode = "full" -> 4
      [] mode = "sqlite" -> 3
      [] mode = "redis" -> 2
      [] mode = "memory" -> 1
      [] mode = "none" -> 0

\* C7: the effective cache mode never escalates: get_cache_mode() is never stronger
\* than the configured preference.
C7_ModeNeverEscalates == ModeRank(get_cache_mode(Globals)) <= ModeRank(pref)

-----------------------------------------------------------------------------
(* Outcome of the set operations (checked under Spec) *)

\* some tier took the records of the call: the durable store, the fast cache or the
\* fallback store changed
TierAccepted ==
    db' # db \/ redis' # redis \/ _memory_cache' # _memory_cache

\* C11: for every entity type and every tier availability, a set with a non-empty batch
\* that returns, returns true if and only if a tier (durable store, fast cache or
\* fallback store) accepted the write or no tier is configured; in particular a set
\* whose durable transaction committed returns true.
C11_SetTrueIffATierAccepted ==
    [][(op'.name \in SetNames /\ op'.data # <<>> /\ ret'.kind = "return")
       => /\ (TierAccepted \/ (BothDown /\ pref = "none")) => ret' = Return(TRUE)
          /\ db' # db => ret' = Return(TRUE)]_vars

\* C13: no set operation raises to the caller because a tier is unavailable or failing:
\* for every entity type, without a session and without a fast cache as well, the set
\* returns a boolean.
C13_SetReturnsBoolean ==
    op.name \in SetNames => (ret.kind = "return" /\ ret.val \in BOOLEAN)

\* the value of a field of an article, None where the article has no such field
NewsField(article, field) == IF field \in DOMAIN article THEN article[field] ELSE None

\* the fields that a non-overwrite write of an existing article may fill
FillFields == {"summary", "categories", "entities", "related_tickers", "ticker_sentiments"}

\* C15: a non-overwrite write of a news article whose natural key exists fills the
\* fields among summary, categories, entities, related_tickers and ticker_sentiments
\* that are null or empty in the stored article from the incoming record, leaves every
\* populated field of the stored article as it is, and the same write repeated changes
\* nothing further.
C15_NewsFillsOnlyBlanks ==
    [][(/\ op'.name = "set_company_news"
        /\ ~op'.force_update
        /\ ret' = Return(TRUE)
        /\ Len(op'.data) = 1
        /\ Len(db.company_news) = 1
        /\ db.company_news[1].ticker = op'.ticker
        /\ db.company_news[1].date = op'.data[1].date
        /\ db.company_news[1].title = op'.data[1].title
        /\ ~Truthy(op'.data[1].url))
       => LET stored == db.company_news[1]
              after == db'.company_news[1]
              item == op'.data[1]
          IN /\ Len(db'.company_news) = 1
             /\ \A f \in {"ticker", "date", "title"} : after[f] = stored[f]
             /\ \A f \in {"url", "summary"} : Truthy(stored[f]) => after[f] = stored[f]
             /\ \A f \in FillFields :
                   (~Truthy(NewsField(stored, f)) /\ Truthy(NewsField(item, f)))
                   => NewsField(after, f) = item[f]
             /\ op' = op => db' = db]_vars

-----------------------------------------------------------------------------
(* The facade with failing tiers: the durable transaction of a set may     *)
(* raise (dbfail) and the fast cache may raise on every command of a call  *)
(* (rfail).  Price bars and insider trades, one dataset per run.           *)

\* batches of one price bar, and of two bars of one time
PriceBatches ==
    {<<d>> : d \in PriceDicts}
    \cup {b \in [1..2 -> PriceDicts] : b[1].time = b[2].time /\ b[1].close < b[2].close}

\* batches of one insider trade, and of two trades the second of which names the insider
TradeBatches ==
    {<<d>> : d \in InsiderTradeDicts} \cup {<<d, NamedTrade>> : d \in InsiderTradeDicts}

\* get_cache().set_insider_trades(ticker, data, force_update) with failing tiers
SetInsiderTradesFailing(ticker, data, force_update, rfail, dbfail) ==
    LET r == set_insider_trades(_cache, Globals, db, redis, ticker, data, force_update,
                                rfail, dbfail)
    IN /\ db' = [db EXCEPT !.insider_trades = r.rows]
       /\ redis' = r.redis
       /\ ret' = r.ret
       /\ op' = [name |-> "set_insider_trades", dataset |-> "insider_trades",
                 ticker |-> ticker, data |-> data, force_update |-> force_update,
                 rfail |-> rfail, dbfail |-> dbfail]
       /\ UNCHANGED <<sessionVars, globalVars, pref, facadeVars, _memory_cache>>

\* get_cache().get_insider_trades(ticker, start_date, end_date) with a failing fast cache
GetInsiderTradesFailing(ticker, start_date, end_date, rfail) ==
    LET r == get_insider_trades(_cache, Globals, db, redis, ticker, start_date, end_date,
                                rfail)
    IN /\ redis' = r.redis
       /\ ret' = r.ret
       /\ op' = [name |-> "get_insider_trades", dataset |-> "insider_trades",
                 ticker |-> ticker, args |-> <<start_date, end_date>>, rfail |-> rfail]
       /\ UNCHANGED <<sessionVars, globalVars, pref, facadeVars, db, _memory_cache>>

\* the state after init_cache() with preference full, for each outcome of opening the
\* two tiers
InitFault ==
    \E dbOut \in {"ok", "connect_error"}, rdOut \in {"ok", "ping_error"} :
       LET g == init_db(BootGlobals("full"), dbOut, rdOut)
       IN /\ CACHE_MODE = g.CACHE_MODE
          /\ _engine = g.engine
          /\ _db_enabled = g.db_enabled
          /\ _redis_client = g.redis_client
          /\ _redis_enabled = g.redis_enabled
          /\ pref = "full"
          /\ _cache = PersistentCache(g)
          /\ _cache_manager = Imported(PersistentCache(g))
          /\ db = [tb \in Tables |-> <<>>]
          /\ redis = EmptyMap
          /\ _memory_cache = EmptyMemoryCache
          /\ sessions = NoSessions
          /\ wrapper = NoCalls
          /\ op = [name |-> "init_cache", dataset |-> "", dbOut |-> dbOut,
                   rdOut |-> rdOut]
          /\ ret = Return(None)

NextFault ==
    \/ \E ticker \in Tickers, f \in DateFilters, rfail \in BOOLEAN :
          Working("prices") /\ GetPrices(ticker, f[1], f[2], rfail)
    \/ \E ticker \in Tickers, data \in PriceBatches,
          force_update, rfail, dbfail \in BOOLEAN :
          Working("prices") /\ SetPrices(ticker, data, force_update, rfail, dbfail)
    \/ \E ticker \in Tickers, f \in DateFilters, rfail \in BOOLEAN :
          Working("insider_trades") /\ GetInsiderTradesFailing(ticker, f[1], f[2], rfail)
    \/ \E ticker \in Tickers, data \in TradeBatches, force_update, rfail, dbfail \in BOOLEAN :
          Working("insider_trades")
          /\ SetInsiderTradesFailing(ticker, data, force_update, rfail, dbfail)

SpecFault == InitFault /\ [][NextFault]_vars

\* the durable transaction of the set call of the step raises before it is committed:
\* the commit fails, or the loop reaches a trade that names the insider
\* (InsiderTrade.name does not exist)
DurableLegRaises ==
    /\ op'.name \in {"set_prices", "set_insider_trades"}
    /\ is_db_enabled(Globals)
    /\ \/ op'.dbfail
       \/ /\ op'.name = "set_insider_trades"
          /\ \E i \in DOMAIN op'.data : Truthy(op'.data[i].name)

\* C12: a durable write is atomic per set call: when an exception occurs while the
\* batch is applied, the durable store is after the call what it was before it, and the
\* durable leg reports the failure (set_prices falls back to the fallback store, the
\* other sets return false).
C12_DurableWriteAtomic ==
    [][DurableLegRaises
       => /\ db' = db
          /\ op'.name = "set_prices" =>
                MemoryList(_memory_cache', "prices", op'.ticker)
                = _merge_data(MemoryList(_memory_cache, "prices", op'.ticker),
                              op'.data, "time")
          /\ op'.name = "set_insider_trades" => ret' = Return(FALSE)]_vars

\* C12 witness: a batch of two insider trades raised at its second trade, after the
\* first one had been added to the session, and the table is still empty
C12_Witness ==
    /\ op.name = "set_insider_trades"
    /\ is_db_enabled(Globals)
    /\ Len(op.data) = 2
    /\ ~Truthy(op.data[1].name)
    /\ Truthy(op.data[2].name)
    /\ ~op.dbfail
    /\ ret = Return(FALSE)
    /\ db.insider_trades = <<>>

\* C27: in a set on a facade with both tiers the fast cache is invalidated after the
\* durable transaction has committed and nothing is written to it before: after a set
\* whose durable leg fails, the fast cache has no entry with the rejected batch that it
\* did not have before the call.
C27_NoFastCacheWriteBeforeCommit ==
    [][(DurableLegRaises /\ _cache.redis)
       => \A k \in DOMAIN redis' :
             redis'[k].val = op'.data => (k \in DOMAIN redis /\ redis[k] = redis'[k])]_vars

-----------------------------------------------------------------------------
(* Tier initialisation (checked under SpecMode) *)

\* the step is a call that tries to open the durable store
OpensDb == op'.name \in {"init_db", "init_cache"} /\ ~_engine

\* the step is a call that tries to open the fast cache
OpensRedis ==
    /\ op'.name = "init_redis" \/ OpensDb
    /\ ~_redis_client
    /\ CACHE_MODE # "none"

\* C14: initialisation never fails fatally on a tier failure: for every combination of
\* outcomes init_db, init_redis and init_cache return without raising, a tier whose
\* connection or ping failed ends disabled (is_db_enabled() false, get_redis() None),
\* and a failure to open the durable store does not prevent the attempt to open the
\* fast cache.
C14_InitNeverFatal ==
    [][op'.name \in {"init_db", "init_redis", "init_cache"}
       => /\ ret' = Return(None)
          /\ (OpensDb /\ op'.dbOut # "ok") => ~is_db_enabled(Globals')
          /\ (OpensRedis /\ op'.rdOut # "ok") => ~get_redis(Globals')
          /\ (OpensDb /\ OpensRedis /\ op'.dbOut # "ok" /\ op'.rdOut = "ok")
             => get_redis(Globals')]_vars

\* C14 witness: init_db has returned, the connection test of the durable store failed
\* and the fast cache is open
C14_Witness ==
    /\ op.name = "init_db"
    /\ op.dbOut = "connect_error"
    /\ op.rdOut = "ok"
    /\ ret = Return(None)
    /\ ~is_db_enabled(Globals)
    /\ get_redis(Globals)

-----------------------------------------------------------------------------
(* tools/api.py: the fetch functions in front of the facade.  The external *)
(* service is the record api = [status, days, close, suffix]: the HTTP     *)
(* status of every request of the call, the days of January 2024 it has a  *)
(* bar for, the close of its bars and what follows the date in their time. *)
(* A store is the record [tables, redis, memory] of the three tiers.       *)

\* the last day of January 2024 that a call may name
MaxDay == 7

\* strftime("%Y-%m-%d") of a day of January 2024
DateStr(n) == "2024-01-" \o (IF n < 10 THEN "0" \o IntStr(n) ELSE IntStr(n))

\* strptime(s, "%Y-%m-%d"): the day of January 2024
ParseDate(s) == CHOOSE n \in 1..31 : DateStr(n) = s

\* datetime.weekday(): 0 is Monday; 2024-01-01 is a Monday
Weekday(n) == (n - 1) % 7

\* the dates from start to end that are Mondays to Fridays, in increasing order
RECURSIVE WorkDays(_, _)
WorkDays(current_date, end) ==
    IF current_date > end THEN <<>>
    ELSE (IF Weekday(current_date) < 5 THEN <<DateStr(current_date)>> ELSE <<>>)
         \o WorkDays(current_date + 1, end)

\* the bars the service returns for a range, oldest first
RECURSIVE ApiPrices(_, _, _)
ApiPrices(api, from, to) ==
    IF from > to THEN <<>>
    ELSE (IF from \in api.days
          THEN <<[time |-> DateStr(from) \o api.suffix, close |-> api.close]>>
          ELSE <<>>)
         \o ApiPrices(api, from + 1, to)

Store(tables, rd, mc) == [tables |-> tables, redis |-> rd, memory |-> mc]

\* a get_ of the facade that returned r = [ret, redis], as [ret, store]
StoreGot(st, r) == [ret |-> r.ret, store |-> [st EXCEPT !.redis = r.redis]]

\* a set_ of the facade on a table that returned r = [ret, rows, redis], as [ret, store]
StoreDidSet(st, dataset, r) ==
    [ret |-> r.ret, store |-> [st EXCEPT !.tables[dataset] = r.rows, !.redis = r.redis]]

\* set_prices of the facade that returned r = [ret, prices, redis, memory], as
\* [ret, store]
StoreDidSetPrices(st, r) ==
    [ret |-> r.ret,
     store |-> Store([st.tables EXCEPT !.prices = r.prices], r.redis, r.memory)]

\* Price(**price).model_dump() of each dict of a list: the fields of a price bar
RECURSIVE model_dump(_)
model_dump(prices) ==
    IF prices = <<>> THEN <<>>
    ELSE <<[time |-> Head(prices).time, close |-> Head(prices).close]>>
         \o model_dump(Tail(prices))

\* the store after _cache.set_prices(ticker, data, force_update) and what it returned
StoreSetPrices(self, g, st, ticker, data, force_update) ==
    StoreDidSetPrices(st, set_prices(self, g, st.tables, st.redis, st.memory, ticker,
                                     data, force_update, FALSE, FALSE))

\* the store after _cache.get_prices(ticker, start_date, end_date) and what it returned
StoreGetPrices(self, g, st, ticker, start_date, end_date) ==
    StoreGot(st, get_prices(self, g, st.tables, st.redis, st.memory, ticker,
                            PyStr(start_date), PyStr(end_date), FALSE))

\* what a fetch function returns, as [ret, store, fetched], when the facade returned
\* cached = [ret, store], dumped is the dump of the cached records, the service answers
\* status and data, and stored = [ret, store] is the set of the data that follows;
\* fetched says that the service was asked
FetchResult(cached, dumped, status, data, stored) ==
    IF cached.ret.kind = "raise"
    THEN [ret |-> cached.ret, store |-> cached.store, fetched |-> FALSE]
    ELSE IF cached.ret.val # <<>>
    THEN [ret |-> Return(dumped), store |-> cached.store, fetched |-> FALSE]
    ELSE IF status # 200
    THEN [ret |-> Raise("Exception"), store |-> cached.store, fetched |-> TRUE]
    ELSE IF data = <<>>
    THEN [ret |-> Return(<<>>), store |-> cached.store, fetched |-> TRUE]
    ELSE IF stored.ret.kind = "raise"
    THEN [ret |-> stored.ret, store |-> stored.store, fetched |-> TRUE]
    ELSE [ret |-> Return(data), store |-> stored.store, fetched |-> TRUE]

\* the data of a fetch or of a read that returned, the empty list for one that raised
Fetched(got) == IF got.ret.kind = "return" THEN got.ret.val ELSE <<>>

\* api.get_prices(ticker, start_date, end_date) as [ret, store, fetched]: the prices
\* as dumped by the callers
api_get_prices(self, g, st, ticker, start_date, end_date, api) ==
    LET prices == ApiPrices(api, ParseDate(start_date), ParseDate(end_date))
        Fetch(cached) ==
            FetchResult(cached, model_dump(Fetched(cached)), api.status, prices,
                        StoreSetPrices(self, g, cached.store, ticker, prices, FALSE))
    IN Fetch(StoreGetPrices(self, g, st, ticker, start_date, end_date))

\* the ranges of split_date_ranges that start with the day range_start, prev being the
\* last day seen and days the sorted days that follow
RECURSIVE split_from(_, _, _)
split_from(days, range_start, prev) ==
    IF days = <<>> THEN <<[start |-> DateStr(range_start), end |-> DateStr(prev)]>>
    ELSE IF Head(days) - prev > 1
    THEN <<[start |-> DateStr(range_start), end |-> DateStr(prev)]>>
         \o split_from(Tail(days), Head(days), Head(days))
    ELSE split_from(Tail(days), range_start, Head(days))

\* api.split_date_ranges(dates), dates in increasing order
split_date_ranges(dates) ==
    IF dates = <<>> THEN <<>>
    ELSE LET date_objs == [i \in DOMAIN dates |-> ParseDate(dates[i])]
         IN split_from(Tail(date_objs), date_objs[1], date_objs[1])

\* MissingDates without the test of the weekday: every date of the range that no record
\* of existing_data is dated
MissingDates_with_weekends(existing_data, start_date, end_date) ==
    LET dates == {SplitT0(existing_data[i].time) : i \in DOMAIN existing_data}
        Absent(d) == d \notin dates
    IN SelectSeq([n \in 1..(ParseDate(end_date) - ParseDate(start_date) + 1)
                     |-> DateStr(ParseDate(start_date) + n - 1)], Absent)

\* the working days of the range that no record of existing_data is dated
MissingDates(existing_data, start_date, end_date) ==
    LET dates == {SplitT0(existing_data[i].time) : i \in DOMAIN existing_data}
        Absent(d) == d \notin dates
    IN SelectSeq(WorkDays(ParseDate(start_date), ParseDate(end_date)), Absent)

\* the loop of check_and_fill_data over the ranges of missing dates, as [store, fetched]
RECURSIVE fill_ranges(_, _, _, _, _, _, _)
fill_ranges(self, g, st, ticker, ranges, api, fetched) ==
    IF ranges = <<>> THEN [store |-> st, fetched |-> fetched]
    ELSE LET Filled(new_prices) ==
                 fill_ranges(self, g,
                             IF Fetched(new_prices) # <<>>
                             THEN StoreSetPrices(self, g, new_prices.store, ticker,
                                                 new_prices.ret.val, FALSE).store
                             ELSE new_prices.store,
                             ticker, Tail(ranges), api, fetched \/ new_prices.fetched)
         IN Filled(api_get_prices(self, g, st, ticker, Head(ranges).start,
                                  Head(ranges).end, api))

\* api.check_and_fill_data('prices', ticker, start_date, end_date) as [ret, store, fetched]
check_and_fill_data(self, g, st, ticker, start_date, end_date, api) ==
    LET Complete(complete, filled) ==
            [ret |-> complete.ret, store |-> complete.store, fetched |-> filled.fetched]
        Reread(filled) ==
            Complete(StoreGetPrices(self, g, filled.store, ticker, start_date, end_date),
                     filled)
        Fill(existing_data, missing_dates) ==
            IF existing_data.ret.kind = "raise"
            THEN [ret |-> existing_data.ret, store |-> existing_data.store,
                  fetched |-> FALSE]
            ELSE IF existing_data.ret.val = <<>>
            THEN api_get_prices(self, g, existing_data.store, ticker, start_date,
                                end_date, api)
            ELSE IF missing_dates = <<>>
            THEN [ret |-> existing_data.ret, store |-> existing_data.store,
                  fetched |-> FALSE]
            ELSE Reread(fill_ranges(self, g, existing_data.store, ticker,
                                    split_date_ranges(missing_dates), api, FALSE))
        Check(existing_data) ==
            Fill(existing_data,
                 MissingDates(Fetched(existing_data), start_date, end_date))
    IN Check(StoreGetPrices(self, g, st, ticker, start_date, end_date))

\* CacheManager.fill_missing_price_data(ticker, start_date, end_date) as
\* [ret, store, fetched], the value returned being the pair [data, missing]
fill_missing_price_data(self, g, st, ticker, start_date, end_date, api) ==
    LET Pair(r, missing) ==
            IF r.ret.kind = "raise" THEN r
            ELSE [r EXCEPT !.ret = Return([data |-> r.ret.val, missing |-> missing])]
        Fill(existing_data, missing_dates) ==
            IF existing_data.ret.kind = "raise"
            THEN [ret |-> existing_data.ret, store |-> existing_data.store,
                  fetched |-> FALSE]
            ELSE IF existing_data.ret.val = <<>>
            THEN Pair(check_and_fill_data(self, g, existing_data.store, ticker,
                                          start_date, end_date, api), <<>>)
            ELSE IF missing_dates = <<>>
            THEN [ret |-> Return([data |-> existing_data.ret.val, missing |-> <<>>]),
                  store |-> existing_data.store, fetched |-> FALSE]
            ELSE Pair(check_and_fill_data(self, g, existing_data.store, ticker,
                                          start_date, end_date, api), missing_dates)
        Check(existing_data) ==
            Fill(existing_data,
                 MissingDates(Fetched(existing_data), start_date, end_date))
    IN Check(StoreGetPrices(self, g, st, ticker, start_date, end_date))

-----------------------------------------------------------------------------
(* Backfill of price bars by the cache manager, in every cache mode that   *)
(* the preference full degrades to.                                        *)

FillTickers == {"MSFT"}

\* the date ranges asked for: Monday to Friday, and Monday to the last day
FillRanges == {<<DateStr(1), DateStr(5)>>, <<DateStr(1), DateStr(MaxDay)>>}

\* the working days up to MaxDay
AllWorkDays == {n \in 1..MaxDay : Weekday(n) < 5}

\* the external service: answering or not, with no bar, two bars or every bar
Apis == [status : {200, 500}, days : {{}, {1, 3}, AllWorkDays}, close : {1},
         suffix : {""}]

\* get_cache_manager().fill_missing_price_data(ticker, start_date, end_date)
FillMissingPriceData(ticker, start_date, end_date, api) ==
    LET Done(r) ==
            /\ db' = r.store.tables
            /\ redis' = r.store.redis
            /\ _memory_cache' = r.store.memory
            /\ ret' = r.ret
            /\ op' = [name |-> "fill_missing_price_data", dataset |-> "prices",
                      ticker |-> ticker, start_date |-> start_date,
                      end_date |-> end_date, api |-> api, fetched |-> r.fetched]
            /\ UNCHANGED <<sessionVars, globalVars, pref, facadeVars>>
    IN Done(fill_missing_price_data(_cache, Globals, Store(db, redis, _memory_cache),
                                    ticker, start_date, end_date, api))

NextFill ==
    \E ticker \in FillTickers, range \in FillRanges, api \in Apis :
        FillMissingPriceData(ticker, range[1], range[2], api)

SpecFill == InitFault /\ [][NextFill]_vars

\* the price records that the cache holds for the range of the call of the step, at
\* call time
CachedAtCall ==
    get_prices(_cache, Globals, db, redis, _memory_cache, op'.ticker,
               PyStr(op'.start_date), PyStr(op'.end_date), FALSE).ret.val

\* C18: fill_missing_price_data(ticker, start, end) returns as its list of missing
\* dates exactly the Monday-to-Friday dates of [start, end] that no cached price record
\* is dated at call time, also when no record is cached at all, and asks the external
\* service whenever that list is not empty.
C18_MissingAreUncachedWorkDays ==
    [][(op'.name = "fill_missing_price_data" /\ ret'.kind = "return")
       => LET expected == MissingDates(CachedAtCall, op'.start_date, op'.end_date)
          IN /\ ret'.val.missing = expected
             /\ expected # <<>> => op'.fetched]_vars


\* the dates that the records of a list are dated
DatesOf(data) == {SplitT0(data[i].time) : i \in DOMAIN data}

\* C19: fill_missing_price_data("MSFT", "2024-01-01", "2024-01-05") against a store
\* whose only bars are those of 2024-01-01 and 2024-01-03 returns the missing dates
\* 2024-01-02 and 2024-01-04 and no other, and after the backfill a record set that
\* covers the four business days 2024-01-01 to 2024-01-04.
C19_MsftExample ==
    [][(/\ op'.name = "fill_missing_price_data"
        /\ op'.ticker = "MSFT"
        /\ op'.start_date = "2024-01-01"
        /\ op'.end_date = "2024-01-05"
        /\ DatesOf(CachedAtCall) = {"2024-01-01", "2024-01-03"}
        /\ op'.api.status = 200
        /\ op'.api.days = AllWorkDays)
       => /\ ret'.kind = "return"
          /\ ret'.val.missing = <<"2024-01-02", "2024-01-04">>
          /\ {"2024-01-01", "2024-01-02", "2024-01-03", "2024-01-04"}
             \subseteq DatesOf(ret'.val.data)]_vars

\* C20: when the external service has a bar for every missing date, the record set
\* that fill_missing_price_data returns has a bar for every date it reports as
\* backfilled, in every cache mode.
C20_BackfilledDatesReturned ==
    [][(/\ op'.name = "fill_missing_price_data"
        /\ ret'.kind = "return"
        /\ op'.api.status = 200
        /\ \A i \in DOMAIN ret'.val.missing :
              ParseDate(ret'.val.missing[i]) \in op'.api.days)
       => \A i \in DOMAIN ret'.val.missing :
             ret'.val.missing[i] \in DatesOf(ret'.val.data)]_vars

\* at call time the cache holds a bar for every Monday-to-Friday date of the range of
\* the call of the step
CompleteAtCall ==
    /\ op'.name = "fill_missing_price_data"
    /\ \A n \in ParseDate(op'.start_date)..ParseDate(op'.end_date) :
          Weekday(n) < 5 => DateStr(n) \in DatesOf(CachedAtCall)

\* the call of the step made once more in the state it leaves, as [ret, store, fetched]
CalledAgain ==
    fill_missing_price_data(_cache, Globals', Store(db', redis', _memory_cache'),
                            op'.ticker, op'.start_date, op'.end_date, op'.api)

\* the call of the step returned the cached records and no missing date without asking
\* the service, and made again it returns the same and changes no tier
ReturnsExistingTwice ==
    /\ ret' = Return([data |-> CachedAtCall, missing |-> <<>>])
    /\ ~op'.fetched
    /\ CalledAgain.ret = ret'
    /\ ~CalledAgain.fetched
    /\ CalledAgain.store = Store(db', redis', _memory_cache')

-----------------------------------------------------------------------------
(* tools/api.py: the other fetch functions and refresh_data.  Here the     *)
(* external service is the record api = [status, has_data, value]: the     *)
(* HTTP status of the requests for each dataset, whether it has records,   *)
(* and the value that its records carry (close, pe_ratio, shares, summary).*)

\* the records that the service returns for a ticker
PricesApi(api) ==
    [status |-> api.status.prices, days |-> IF api.has_data THEN {1, 2} ELSE {},
     close |-> api.value, suffix |-> ""]
ApiFinancialMetrics(api, ticker) ==
    IF api.has_data
    THEN <<[ticker |-> ticker, report_period |-> "2024-01-01", period |-> "ttm",
            pe_ratio |-> api.value]>>
    ELSE <<>>
ApiInsiderTrades(api) ==
    IF api.has_data
    THEN <<[filing_date |-> "2024-01-01", name |-> None, transaction_date |-> None,
            shares |-> api.value]>>
    ELSE <<>>
ApiCompanyNews(api) ==
    IF api.has_data
    THEN <<[date |-> "2024-01-01", title |-> "t", url |-> None,
            summary |-> PyStr(IntStr(api.value))]>>
    ELSE <<>>

\* FinancialMetrics(**metric).model_dump() of each dict of a list
RECURSIVE dump_metrics(_)
dump_metrics(data) ==
    IF data = <<>> THEN <<>>
    ELSE <<[ticker |-> Head(data).ticker, report_period |-> Head(data).report_period,
            period |-> Head(data).period, pe_ratio |-> Head(data).pe_ratio]>>
         \o dump_metrics(Tail(data))

\* InsiderTrade(**trade).model_dump() of each dict of a list
RECURSIVE dump_trades(_)
dump_trades(data) ==
    IF data = <<>> THEN <<>>
    ELSE <<[filing_date |-> Head(data).filing_date,
            name |-> NewsField(Head(data), "name"),
            transaction_date |-> Head(data).transaction_date,
            shares |-> Head(data).shares]>>
         \o dump_trades(Tail(data))

\* CompanyNews(**news).model_dump() of each dict of a list
RECURSIVE dump_news(_)
dump_news(data) ==
    IF data = <<>> THEN <<>>
    ELSE <<[date |-> Head(data).date, title |-> Head(data).title,
            url |-> Head(data).url, summary |-> Head(data).summary]>>
         \o dump_news(Tail(data))

\* api.get_financial_metrics(ticker, end_date, period, limit)
api_get_financial_metrics(self, g, st, ticker, end_date, period, limit, api) ==
    LET data == ApiFinancialMetrics(api, ticker)
        Fetch(cached) ==
            FetchResult(cached, dump_metrics(Fetched(cached)),
                        api.status.financial_metrics, data,
                        StoreDidSet(cached.store, "financial_metrics",
                            set_financial_metrics(self, g, cached.store.tables,
                                                  cached.store.redis, ticker, data,
                                                  FALSE, FALSE, FALSE)))
    IN Fetch(StoreGot(st, get_financial_metrics(self, g, st.tables, st.redis,
                              st.memory, ticker, PyStr(end_date), period, limit,
                              FALSE)))

\* api.get_insider_trades(ticker, end_date, start_date, limit), the service having
\* less than limit trades
api_get_insider_trades(self, g, st, ticker, end_date, start_date, api) ==
    LET data == ApiInsiderTrades(api)
        Fetch(cached) ==
            FetchResult(cached, dump_trades(Fetched(cached)),
                        api.status.insider_trades, data,
                        StoreDidSet(cached.store, "insider_trades",
                            set_insider_trades(self, g, cached.store.tables,
                                               cached.store.redis, ticker, data,
                                               FALSE, FALSE, FALSE)))
    IN Fetch(StoreGot(st, get_insider_trades(self, g, st.tables, st.redis, ticker,
                              PyStr(start_date), PyStr(end_date), FALSE)))

\* api.get_company_news(ticker, end_date, start_date, limit), the service having less
\* than limit articles
api_get_company_news(self, g, st, ticker, end_date, start_date, api) ==
    LET data == ApiCompanyNews(api)
        Fetch(cached) ==
            FetchResult(cached, dump_news(Fetched(cached)),
                        api.status.company_news, data,
                        StoreDidSet(cached.store, "company_news",
                            set_company_news(self, g, cached.store.tables,
                                             cached.store.redis, ticker, data,
                                             FALSE, FALSE, FALSE)))
    IN Fetch(StoreGot(st, get_company_news(self, g, st.tables, st.redis, ticker,
                              PyStr(start_date), PyStr(end_date), FALSE)))

\* what refresh_data returns, as [ret, store, fetched], when its fetch returned got and
\* the set with force_update=True that follows is saved = [ret, store]
Refreshed(got, saved) ==
    IF got.ret.kind = "raise"
    THEN [ret |-> FALSE, store |-> got.store, fetched |-> got.fetched]
    ELSE IF saved.ret.kind = "raise"
    THEN [ret |-> FALSE, store |-> saved.store, fetched |-> got.fetched]
    ELSE [ret |-> saved.ret.val, store |-> saved.store, fetched |-> got.fetched]

\* api.refresh_data(data_type, ticker, start_date=..., end_date=..., ...)
refresh_data(self, g, st, data_type, ticker, start_date, end_date, api) ==
    LET SavePrices(got) ==
            Refreshed(got, StoreSetPrices(self, g, got.store, ticker, Fetched(got),
                                          TRUE))
        SaveFinancialMetrics(got) ==
            Refreshed(got, StoreDidSet(got.store, "financial_metrics",
                    set_financial_metrics(self, g, got.store.tables, got.store.redis,
                                          ticker, Fetched(got), TRUE, FALSE, FALSE)))
        SaveInsiderTrades(got) ==
            Refreshed(got, StoreDidSet(got.store, "insider_trades",
                    set_insider_trades(self, g, got.store.tables, got.store.redis,
                                       ticker, Fetched(got), TRUE, FALSE, FALSE)))
        SaveCompanyNews(got) ==
            Refreshed(got, StoreDidSet(got.store, "company_news",
                    set_company_news(self, g, got.store.tables, got.store.redis,
                                     ticker, Fetched(got), TRUE, FALSE, FALSE)))
    IN CASE data_type = "prices" ->
              SavePrices(api_get_prices(self, g, st, ticker, start_date, end_date,
                                        PricesApi(api)))
         [] data_type = "financial_metrics" ->
              SaveFinancialMetrics(api_get_financial_metrics(self, g, st, ticker,
                                       end_date, "ttm", DefaultLimit, api))
         [] data_type = "insider_trades" ->
              SaveInsiderTrades(api_get_insider_trades(self, g, st, ticker, end_date,
                                                       start_date, api))
         [] data_type = "company_news" ->
              SaveCompanyNews(api_get_company_news(self, g, st, ticker, end_date,
                                                   start_date, api))

\* CacheManager.refresh_ticker_data(ticker, start_date, end_date) as
\* [ret, store, fetched], ret and fetched being maps from the data types
refresh_ticker_data(self, g, st, ticker, start_date, end_date, api) ==
    LET Results(prices, financial_metrics, insider_trades, company_news) ==
            [ret |-> Return([prices |-> prices.ret,
                             financial_metrics |-> financial_metrics.ret,
                             insider_trades |-> insider_trades.ret,
                             company_news |-> company_news.ret]),
             store |-> company_news.store,
             fetched |-> [prices |-> prices.fetched,
                          financial_metrics |-> financial_metrics.fetched,
                          insider_trades |-> insider_trades.fetched,
                          company_news |-> company_news.fetched]]
        CompanyNews(prices, financial_metrics, insider_trades) ==
            Results(prices, financial_metrics, insider_trades,
                    refresh_data(self, g, insider_trades.store, "company_news", ticker,
                                 start_date, end_date, api))
        InsiderTrades(prices, financial_metrics) ==
            CompanyNews(prices, financial_metrics,
                        refresh_data(self, g, financial_metrics.store, "insider_trades",
                                     ticker, start_date, end_date, api))
        FinancialMetrics(prices) ==
            InsiderTrades(prices,
                          refresh_data(self, g, prices.store, "financial_metrics",
                                       ticker, start_date, end_date, api))
    IN FinancialMetrics(refresh_data(self, g, st, "prices", ticker, start_date,
                                     end_date, api))


-----------------------------------------------------------------------------
(* Refresh of a ticker by the cache manager, in every cache mode that the  *)
(* preference full degrades to.                                            *)

\* the data types that refresh_ticker_data refreshes
RefreshTypes == {"prices", "financial_metrics", "insider_trades", "company_news"}

\* the service answers every request, or fails those of one data type
ApiStatuses ==
    LET up == [d \in RefreshTypes |-> 200]
    IN {up} \cup {[up EXCEPT ![d] = 500] : d \in RefreshTypes}

RefreshApis == [status : ApiStatuses, has_data : BOOLEAN, value : Vals]

\* get_cache_manager().refresh_ticker_data(ticker, start_date, end_date)
RefreshTickerData(ticker, start_date, end_date, api) ==
    LET Done(r) ==
            /\ db' = r.store.tables
            /\ redis' = r.store.redis
            /\ _memory_cache' = r.store.memory
            /\ ret' = r.ret
            /\ op' = [name |-> "refresh_ticker_data", dataset |-> "",
                      ticker |-> ticker, start_date |-> start_date,
                      end_date |-> end_date, api |-> api, fetched |-> r.fetched]
            /\ UNCHANGED <<sessionVars, globalVars, pref, facadeVars>>
    IN Done(refresh_ticker_data(_cache, Globals, Store(db, redis, _memory_cache),
                                ticker, start_date, end_date, api))

NextRefresh ==
    \E ticker \in Tickers, api \in RefreshApis :
        RefreshTickerData(ticker, DateStr(1), DateStr(5), api)

SpecRefresh == InitFault /\ [][NextRefresh]_vars


\* what the facade returns for a data type and the arguments of the call of the step,
\* at call time
HeldAtCall(data_type) ==
    CASE data_type = "prices" ->
           get_prices(_cache, Globals, db, redis, _memory_cache, op'.ticker,
                      PyStr(op'.start_date), PyStr(op'.end_date), FALSE).ret
      [] data_type = "financial_metrics" ->
           get_financial_metrics(_cache, Globals, db, redis, _memory_cache, op'.ticker,
                                 PyStr(op'.end_date), "ttm", DefaultLimit, FALSE).ret
      [] data_type = "insider_trades" ->
           get_insider_trades(_cache, Globals, db, redis, op'.ticker,
                              PyStr(op'.start_date), PyStr(op'.end_date), FALSE).ret
      [] data_type = "company_news" ->
           get_company_news(_cache, Globals, db, redis, op'.ticker,
                            PyStr(op'.start_date), PyStr(op'.end_date), FALSE).ret

\* the cache holds data of the type for the range of the call of the step
CacheHolds(data_type) ==
    HeldAtCall(data_type).kind = "return" /\ HeldAtCall(data_type).val # <<>>

\* the records of a data type that the service has for the call of the step
Fresh(data_type) ==
    CASE data_type = "prices" ->
           ApiPrices(PricesApi(op'.api), ParseDate(op'.start_date),
                     ParseDate(op'.end_date))
      [] data_type = "financial_metrics" -> ApiFinancialMetrics(op'.api, op'.ticker)
      [] data_type = "insider_trades" -> ApiInsiderTrades(op'.api)
      [] data_type = "company_news" -> ApiCompanyNews(op'.api)

\* the field that tells the records of a data type apart, and the field that carries
\* their value
KeyField(data_type) ==
    CASE data_type = "prices" -> "time"
      [] data_type = "financial_metrics" -> "report_period"
      [] data_type = "insider_trades" -> "filing_date"
      [] data_type = "company_news" -> "date"
ValueField(data_type) ==
    CASE data_type = "prices" -> "close"
      [] data_type = "financial_metrics" -> "pe_ratio"
      [] data_type = "insider_trades" -> "shares"
      [] data_type = "company_news" -> "summary"

\* after the step the durable store, or the fallback store when there is no durable
\* store, holds every fresh record of the type with its fresh value
FreshStored(data_type) ==
    LET stored == IF is_db_enabled(Globals) THEN db'[data_type]
                  ELSE MemoryList(_memory_cache', data_type, op'.ticker)
    IN \A i \in DOMAIN Fresh(data_type) :
          \E j \in DOMAIN stored :
             /\ stored[j][KeyField(data_type)] = Fresh(data_type)[i][KeyField(data_type)]
             /\ stored[j][ValueField(data_type)]
                = Fresh(data_type)[i][ValueField(data_type)]

\* C16: refresh_ticker_data is a forced re-fetch that bypasses the cache: for each
\* type the external service is asked also when the cache holds data for the range,
\* and the fetched records are written with force_update=True, so that after a
\* refresh that reports success the stored values are the freshly fetched ones.
C16_RefreshBypassesCache ==
    [][op'.name = "refresh_ticker_data"
       => \A d \in RefreshTypes :
             /\ CacheHolds(d) => op'.fetched[d]
             /\ ret'.val[d] => FreshStored(d)]_vars

\* C17: refresh_ticker_data returns a map with exactly the keys prices,
\* financial_metrics, insider_trades and company_news and never raises; a type is
\* true exactly when its refresh succeeded: not when its fetch failed, and always when
\* the service answered and its records are stored after the call.
C17_RefreshReportsPerType ==
    [][op'.name = "refresh_ticker_data"
       => /\ ret'.kind = "return"
          /\ DOMAIN ret'.val = RefreshTypes
          /\ \A d \in RefreshTypes :
                /\ ret'.val[d] \in BOOLEAN
                /\ (op'.fetched[d] /\ op'.api.status[d] # 200) => ~ret'.val[d]
                /\ (/\ op'.fetched[d]
                    /\ op'.api.status[d] = 200
                    /\ op'.api.has_data
                    /\ FreshStored(d)) => ret'.val[d]]_vars


-----------------------------------------------------------------------------
(* cache_manager.py: get_data_stats and clear_ticker_cache.                *)

\* min and max of a non-empty list of strings
min(values) ==
    values[CHOOSE i \in DOMAIN values : \A j \in DOMAIN values :
                                           StrLE(values[i], values[j])]
max(values) ==
    values[CHOOSE i \in DOMAIN values : \A j \in DOMAIN values :
                                           StrLE(values[j], values[i])]

\* [item[field] for item in data], and the same with .split('T')[0]
FieldOf(data, field) == [i \in DOMAIN data |-> data[i][field]]
DateOf(data, field) == [i \in DOMAIN data |-> SplitT0(data[i][field])]

\* the statistics of a list of dates, and of a list of report periods
DateStats(dates) ==
    IF dates = <<>> THEN [count |-> 0]
    ELSE [count |-> Len(dates), earliest_date |-> min(dates), latest_date |-> max(dates)]
PeriodStats(periods) ==
    IF periods = <<>> THEN [count |-> 0]
    ELSE [count |-> Len(periods), earliest_period |-> min(periods),
          latest_period |-> max(periods)]

\* CacheManager.get_data_stats(ticker) as [ret, store]: the four reads of the facade
\* with no filter, in the order of the code; a read that raises ends the call
get_data_stats(self, g, st, ticker) ==
    LET Stats(prices, metrics, trades, news) ==
            IF news.ret.kind = "raise" THEN news
            ELSE [ret |-> Return(
                      [prices |-> DateStats(DateOf(prices.ret.val, "time")),
                       financial_metrics |->
                           PeriodStats(FieldOf(metrics.ret.val, "report_period")),
                       insider_trades |->
                           DateStats(DateOf(trades.ret.val, "filing_date")),
                       company_news |-> DateStats(FieldOf(news.ret.val, "date"))]),
                  store |-> news.store]
        News(prices, metrics, trades) ==
            IF trades.ret.kind = "raise" THEN trades
            ELSE Stats(prices, metrics, trades,
                       StoreGot(trades.store,
                                get_company_news(self, g, trades.store.tables,
                                                 trades.store.redis, ticker, None, None,
                                                 FALSE)))
        Trades(prices, metrics) ==
            IF metrics.ret.kind = "raise" THEN metrics
            ELSE News(prices, metrics,
                      StoreGot(metrics.store,
                               get_insider_trades(self, g, metrics.store.tables,
                                                  metrics.store.redis, ticker, None,
                                                  None, FALSE)))
        Metrics(prices) ==
            IF prices.ret.kind = "raise" THEN prices
            ELSE Trades(prices,
                        StoreGot(prices.store,
                                 get_financial_metrics(self, g, prices.store.tables,
                                                       prices.store.redis,
                                                       prices.store.memory, ticker, None,
                                                       "ttm", DefaultLimit, FALSE)))
    IN Metrics(StoreGot(st, get_prices(self, g, st.tables, st.redis, st.memory, ticker,
                                       None, None, FALSE)))

\* the key prefixes of the patterns that clear_ticker_cache scans
ClearPrefixes(ticker) ==
    {"prices:ticker:" \o ticker, "metrics:ticker:" \o ticker,
     "line_items:ticker:" \o ticker, "insider_trades:ticker:" \o ticker,
     "company_news:ticker:" \o ticker}

\* CacheManager.clear_ticker_cache(ticker) as [ret, redis]: with no fast cache
\* redis.scan_iter raises AttributeError on None, which the call catches like an error
\* of the fast cache
clear_ticker_cache(self, rd, ticker, rfail) ==
    IF ~self.redis \/ rfail THEN [ret |-> Return(FALSE), redis |-> rd]
    ELSE [ret |-> Return(TRUE),
          redis |-> [k \in {x \in DOMAIN rd :
                               \A p \in ClearPrefixes(ticker) : ~GlobMatch(p, x)}
                       |-> rd[k]]]

-----------------------------------------------------------------------------
(* The cache manager over a facade that holds prices, insider trades and   *)
(* news of one ticker, in every cache mode that the preference full        *)
(* degrades to.                                                            *)

StatsPrices == {<<[time |-> DateStr(d) \o "T00:00:00", close |-> 1]>> : d \in 1..2}
StatsTrades == {<<[filing_date |-> DateStr(d), name |-> None, transaction_date |-> None,
                   shares |-> 1]>> : d \in 1..2}
StatsNews == {<<[date |-> DateStr(1), title |-> "t", url |-> None, summary |-> None]>>}

\* get_cache_manager().get_data_stats(ticker)
GetDataStats(ticker) ==
    LET Done(r) ==
            /\ redis' = r.store.redis
            /\ ret' = r.ret
            /\ op' = [name |-> "get_data_stats", dataset |-> "", ticker |-> ticker]
            /\ UNCHANGED <<sessionVars, globalVars, pref, facadeVars, db, _memory_cache>>
    IN Done(get_data_stats(_cache, Globals, Store(db, redis, _memory_cache), ticker))

\* a clear_ticker_cache that also deletes the rows of the ticker from the prices table
ClearTickerCache_deleting_rows(ticker, rfail) ==
    LET OfOther(row) == row.ticker # ticker
        Done(r) ==
            /\ redis' = r.redis
            /\ db' = [db EXCEPT !.prices = SelectSeq(db.prices, OfOther)]
            /\ ret' = r.ret
            /\ op' = [name |-> "clear_ticker_cache", dataset |-> "", ticker |-> ticker,
                      rfail |-> rfail]
            /\ UNCHANGED <<sessionVars, globalVars, pref, facadeVars, _memory_cache>>
    IN Done(clear_ticker_cache(_cache, redis, ticker, rfail))

\* get_cache_manager().clear_ticker_cache(ticker)
ClearTickerCache(ticker, rfail) ==
    LET Done(r) ==
            /\ redis' = r.redis
            /\ ret' = r.ret
            /\ op' = [name |-> "clear_ticker_cache", dataset |-> "", ticker |-> ticker,
                      rfail |-> rfail]
            /\ UNCHANGED <<sessionVars, globalVars, pref, facadeVars, db, _memory_cache>>
    IN Done(clear_ticker_cache(_cache, redis, ticker, rfail))

NextManager ==
    \/ \E ticker \in Tickers, f \in DateFilters : GetPrices(ticker, f[1], f[2], FALSE)
    \/ \E ticker \in Tickers, data \in StatsPrices :
          SetPrices(ticker, data, FALSE, FALSE, FALSE)
    \/ \E ticker \in Tickers, f \in DateFilters : GetInsiderTrades(ticker, f[1], f[2])
    \/ \E ticker \in Tickers, data \in StatsTrades : SetInsiderTrades(ticker, data, FALSE)
    \/ \E ticker \in Tickers, data \in StatsNews : SetCompanyNews(ticker, data, FALSE)
    \/ \E ticker \in Tickers : GetDataStats(ticker)
    \/ \E ticker \in Tickers, rfail \in BOOLEAN : ClearTickerCache(ticker, rfail)

SpecManager == InitFault /\ [][NextManager]_vars


\* the records of a table that are stored for a ticker: the committed rows of the
\* durable store, or the list of the fallback store when there is no durable store
StoredOf(dataset, ticker) ==
    LET OfTicker(row) == row.ticker = ticker
    IN IF is_db_enabled(Globals) THEN SelectSeq(db[dataset], OfTicker)
       ELSE MemoryList(_memory_cache, dataset, ticker)

\* no tier holds anything
NothingStored ==
    /\ db = [tb \in Tables |-> <<>>]
    /\ redis = EmptyMap
    /\ _memory_cache = EmptyMemoryCache

\* C22: get_data_stats(ticker) for a ticker with no stored record in any tier returns
\* {count: 0}, with no date field, for each of prices, financial_metrics,
\* insider_trades and company_news, in every cache mode, and does not raise.
C22_EmptyStatsAreZero ==
    [][(op'.name = "get_data_stats" /\ NothingStored)
       => ret' = Return([d \in RefreshTypes |-> [count |-> 0]])]_vars

\* C23: get_data_stats(ticker) reports for each entity type the number of records
\* stored for the ticker as count, and the least and the greatest date (report period
\* for the metrics) of those records as earliest and latest.
C23_StatsCountStoredRecords ==
    [][op'.name = "get_data_stats"
       => /\ ret'.kind = "return"
          /\ ret'.val.prices = DateStats(DateOf(StoredOf("prices", op'.ticker), "time"))
          /\ ret'.val.financial_metrics
             = PeriodStats(FieldOf(StoredOf("financial_metrics", op'.ticker),
                                   "report_period"))
          /\ ret'.val.insider_trades
             = DateStats(DateOf(StoredOf("insider_trades", op'.ticker), "filing_date"))
          /\ ret'.val.company_news
             = DateStats(FieldOf(StoredOf("company_news", op'.ticker), "date"))]_vars


\* C24: after clear_ticker_cache(ticker) has returned true the fast cache holds no
\* entry of that ticker, of any dataset and whatever the filters of the get that wrote
\* it, so that the next get of the ticker misses the fast cache.
C24_ClearRemovesEveryKey ==
    [][(op'.name = "clear_ticker_cache" /\ ret' = Return(TRUE))
       => \A k \in DOMAIN redis' : redis'[k].ticker # op'.ticker]_vars

\* C25: clear_ticker_cache leaves the durable store and the fallback store as they
\* were, whether it returns true or false.
C25_ClearKeepsStores ==
    [][op'.name = "clear_ticker_cache" => UNCHANGED <<db, _memory_cache>>]_vars

\* C25 witness: clear_ticker_cache has returned true, it emptied the fast cache, and
\* the durable store holds a price bar of the ticker
C25_Witness ==
    /\ op.name = "clear_ticker_cache"
    /\ ret = Return(TRUE)
    /\ redis = EmptyMap
    /\ \E i \in DOMAIN db.prices : db.prices[i].ticker = op.ticker


-----------------------------------------------------------------------------
(* cache.py: with_db_session, the wrapper of every method of the facade    *)
(* that takes db, and database.get_db, step by step for concurrent         *)
(* callers.  A session is the number of its creation; sessions is          *)
(* [open, made]: the sessions that are open and how many _SessionLocal has *)
(* made.  The wrapped method is any method: it returns or raises.          *)

\* the number of sessions after which no further call is made
MaxSessions == 4

\* next(db_gen) on get_db(): None when the durable store is off, else a new session,
\* as [db, sessions]
get_db(g, ss) ==
    IF ~g.db_enabled \/ ~g.engine THEN [db |-> None, sessions |-> ss]
    ELSE [db |-> PyInt(ss.made + 1),
          sessions |-> [open |-> ss.open \cup {ss.made + 1}, made |-> ss.made + 1]]

\* the wrapper's exit that resumes db_gen only when the method returned
with_db_session_finally_on_return(ss, call) ==
    IF call.db = None \/ call.outcome.kind = "raise" THEN ss
    ELSE [ss EXCEPT !.open = @ \ {call.db.n}]

\* the finally of the wrapper: next(db_gen, None) resumes get_db, whose finally closes
\* the session
with_db_session_finally(ss, call) ==
    IF call.db = None THEN ss ELSE [ss EXCEPT !.open = @ \ {call.db.n}]

\* the outcomes of a wrapped method
Outcomes == {Return(TRUE), Raise("Exception")}

\* wrapper(*args, **kwargs) up to the call of func: without a durable store db is None
\* and the call of func is the return statement, else db is next(get_db()) and func runs
\* inside try/finally
WrapperCall(c) ==
    /\ wrapper[c].pc = "idle"
    /\ sessions.made < MaxSessions
    /\ IF ~is_db_enabled(Globals)
       THEN /\ wrapper' = [wrapper EXCEPT ![c] = [pc |-> "func", db |-> None,
                                                  scoped |-> FALSE]]
            /\ UNCHANGED sessions
       ELSE /\ wrapper' = [wrapper EXCEPT ![c] = [pc |-> "func",
                                                  db |-> get_db(Globals, sessions).db,
                                                  scoped |-> TRUE]]
            /\ sessions' = get_db(Globals, sessions).sessions
    /\ op' = [name |-> "with_db_session", dataset |-> "", caller |-> c, step |-> "call",
              db |-> wrapper'[c].db]
    /\ UNCHANGED <<globalVars, pref, facadeVars, storeVars, ret>>

\* func(*args, db=db, **kwargs) returns or raises
FuncEnds(c, outcome) ==
    /\ wrapper[c].pc = "func"
    /\ IF wrapper[c].scoped
       THEN /\ wrapper' = [wrapper EXCEPT ![c] = [pc |-> "finally", db |-> wrapper[c].db,
                                                  scoped |-> TRUE, outcome |-> outcome]]
            /\ UNCHANGED ret
       ELSE /\ wrapper' = [wrapper EXCEPT ![c] = [pc |-> "idle", db |-> None]]
            /\ ret' = outcome
    /\ op' = [name |-> "with_db_session", dataset |-> "", caller |-> c, step |-> "func",
              db |-> wrapper[c].db]
    /\ UNCHANGED <<globalVars, pref, facadeVars, storeVars, sessions>>

\* the finally of the wrapper, and the wrapper returns or raises what func did
WrapperExit(c) ==
    /\ wrapper[c].pc = "finally"
    /\ sessions' = with_db_session_finally(sessions, wrapper[c])
    /\ wrapper' = [wrapper EXCEPT ![c] = [pc |-> "idle", db |-> None]]
    /\ ret' = wrapper[c].outcome
    /\ op' = [name |-> "with_db_session", dataset |-> "", caller |-> c, step |-> "exit",
              db |-> wrapper[c].db]
    /\ UNCHANGED <<globalVars, pref, facadeVars, storeVars>>

NextSession ==
    \/ \E c \in Callers : WrapperCall(c)
    \/ \E c \in Callers, outcome \in Outcomes : FuncEnds(c, outcome)
    \/ \E c \in Callers : WrapperExit(c)

SpecSession == InitFault /\ [][NextSession]_vars

\* the callers that are in a call of the facade
InFlight == {c \in Callers : wrapper[c].pc # "idle"}

\* C26: every call of the facade that obtained a session of the durable store closes
\* it on every exit path, also when the wrapped method raises: the open sessions are
\* exactly those of the calls in flight, none is open between calls, and no two calls
\* hold the same session.
C26_SessionsScopedToCalls ==
    /\ sessions.open = {wrapper[c].db.n : c \in {x \in InFlight : wrapper[x].db # None}}
    /\ InFlight = {} => sessions.open = {}
    /\ \A c1, c2 \in InFlight :
          (c1 # c2 /\ wrapper[c1].db # None) => wrapper[c1].db # wrapper[c2].db

\* C26 witness: a call whose method raised has left the wrapper, its session is closed,
\* and the only open session is that of the other caller, still in its method
C26_Witness ==
    /\ op.name = "with_db_session"
    /\ op.step = "exit"
    /\ op.db # None
    /\ ret.kind = "raise"
    /\ \E c \in Callers :
          /\ c # op.caller
          /\ wrapper[c].pc = "func"
          /\ wrapper[c].db # None
          /\ sessions.open = {wrapper[c].db.n}


-----------------------------------------------------------------------------
(* The read path of the facade and the fast cache.                         *)

\* the key that the get call o = [name, ticker, ...] looks up in the fast cache
KeyOfGet(o) ==
    CASE o.name = "get_prices" ->
           generate_cache_key("prices",
               << <<"ticker", PyStr(o.ticker)>>, <<"start_date", o.start_date>>,
                  <<"end_date", o.end_date>> >>)
      [] o.name = "get_financial_metrics" ->
           generate_cache_key("metrics",
               << <<"ticker", PyStr(o.ticker)>>, <<"end_date", o.args[1]>>,
                  <<"period", PyStr(o.args[2])>>, <<"limit", PyInt(o.args[3])>> >>)
      [] o.name = "get_line_items" ->
           generate_cache_key("line_items",
               << <<"ticker", PyStr(o.ticker)>>, <<"end_date", o.args[1]>>,
                  <<"period", PyStr(o.args[2])>> >>)
      [] o.name \in {"get_insider_trades", "get_company_news"} ->
           generate_cache_key(o.dataset,
               << <<"ticker", PyStr(o.ticker)>>, <<"start_date", o.args[1]>>,
                  <<"end_date", o.args[2]>> >>)

\* the fast cache is in use and holds a non-empty value under the key of the get call o
FastCacheHit(rd, o) ==
    /\ _cache.redis
    /\ KeyOfGet(o) \in DOMAIN rd
    /\ rd[KeyOfGet(o)].val # <<>>

\* what a query of the durable store with the ticker and the filters of the get call o
\* returns
DurableResult(tables, o) ==
    CASE o.name = "get_prices" ->
           QueryPrices(tables.prices, o.ticker, o.start_date, o.end_date)
      [] o.name = "get_insider_trades" ->
           QueryInsiderTrades(tables.insider_trades, o.ticker, o.args[1], o.args[2])
      [] o.name = "get_company_news" ->
           QueryCompanyNews(tables.company_news, o.ticker, o.args[1], o.args[2])

\* C28: with one caller in Full mode, after any sequence of set_prices and get_prices,
\* a get_prices(ticker, start_date, end_date) returns the bars (time and values) that
\* a query of the durable store with the same filters returns at that moment.
C28_FastCacheTransparent ==
    [][(op'.name = "get_prices" /\ _cache.cache_mode = "full")
       => /\ ret'.kind = "return"
          /\ model_dump(ret'.val) = model_dump(DurableResult(db, op'))]_vars

\* C29: a get that finds its key in the fast cache returns the cached value at once:
\* the result is the cached value, whatever the durable store and the fallback store
\* hold, and no tier is written.
C29_HitReturnsCachedValue ==
    [][(op'.name \in GetNames /\ FastCacheHit(redis, op'))
       => /\ ret' = Return(redis[KeyOfGet(op')].val)
          /\ UNCHANGED storeVars]_vars

\* C29 witness: get_prices has returned the value cached under its key while a query
\* of the durable store gives other bars
C29_Witness ==
    /\ op.name = "get_prices"
    /\ FastCacheHit(redis, op)
    /\ ret = Return(redis[KeyOfGet(op)].val)
    /\ is_db_enabled(Globals)
    /\ model_dump(ret.val) # model_dump(DurableResult(db, op))

\* the get call of the step made once more in the state it leaves, as [ret, redis]
GetAgain ==
    CASE op'.name = "get_prices" ->
           get_prices(_cache, Globals', db', redis', _memory_cache', op'.ticker,
                      op'.start_date, op'.end_date, FALSE)
      [] op'.name = "get_insider_trades" ->
           get_insider_trades(_cache, Globals', db', redis', op'.ticker, op'.args[1],
                              op'.args[2], FALSE)
      [] op'.name = "get_company_news" ->
           get_company_news(_cache, Globals', db', redis', op'.ticker, op'.args[1],
                            op'.args[2], FALSE)

\* C30: a get that misses the fast cache and finds records in the durable store
\* returns them and writes them to the fast cache, once, under the key it looked up;
\* when the durable store has no record for it nothing is written to the fast cache;
\* the same get made next is served from the fast cache with an equal result.
C30_MissWritesThrough ==
    [][(/\ op'.name \in {"get_prices", "get_insider_trades", "get_company_news"}
        /\ _cache.redis
        /\ is_db_enabled(Globals)
        /\ ~FastCacheHit(redis, op'))
       => IF DurableResult(db, op') # <<>>
          THEN /\ ret' = Return(DurableResult(db, op'))
               /\ DOMAIN redis' = DOMAIN redis \cup {KeyOfGet(op')}
               /\ redis'[KeyOfGet(op')].val = DurableResult(db, op')
               /\ \A k \in DOMAIN redis : k # KeyOfGet(op') => redis'[k] = redis[k]
               /\ FastCacheHit(redis', op')
               /\ GetAgain = [ret |-> ret', redis |-> redis']
          ELSE redis' = redis]_vars

\* C30 witness: get_prices with filters has returned bars of the durable store, and
\* the fast cache holds them under the key of the call, written by a get
C30_Witness ==
    /\ op.name = "get_prices"
    /\ op.start_date # None
    /\ _cache.cache_mode = "full"
    /\ ret.kind = "return"
    /\ ret.val # <<>>
    /\ ret.val = DurableResult(db, op)
    /\ FastCacheHit(redis, op)
    /\ redis[KeyOfGet(op)] = Entry(ret.val, "get", "prices", op.ticker)

-----------------------------------------------------------------------------
(* The fallback store behind a failing durable store (checked under        *)
(* SpecFault)                                                              *)

\* the step is a get_prices of the ticker of the set_prices before it, whose durable
\* transaction failed while the durable store was enabled
GetAfterFailedSet ==
    /\ op.name = "set_prices"
    /\ op.dbfail
    /\ is_db_enabled(Globals)
    /\ op'.name = "get_prices"
    /\ op'.ticker = op.ticker

\* C31: when the durable transaction of a set fails while the durable store is still
\* enabled, the incoming records are merged into the fallback store, and a get for that
\* ticker that follows returns them: every record of the ticker's fallback list is in
\* the result of the get.
C31_FallbackRecordsReadable ==
    [][GetAfterFailedSet
       => LET held == MemoryList(_memory_cache, "prices", op.ticker)
          IN /\ KeysOf(op.data, "time") \subseteq KeysOf(held, "time")
             /\ ret'.kind = "return"
             /\ \A i \in DOMAIN held :
                   \E j \in DOMAIN ret'.val :
                      /\ ret'.val[j].time = held[i].time
                      /\ ret'.val[j].close = held[i].close]_vars

\* the call of the step runs on a facade with a fast cache that raises on every command
FastCacheRaises ==
    /\ "rfail" \in DOMAIN op'
    /\ op'.rfail
    /\ _cache.redis

\* C32: a failure of the fast cache is treated as a miss or a no-op and is never
\* propagated: a get falls through to the durable store and returns its result; a set
\* that committed its durable write does not return false because of it; and the mode
\* and the tier flags of the process, and those of the facade, are unchanged.
C32_FastCacheFailureContained ==
    [][FastCacheRaises
       => /\ (op'.name \in GetNames /\ is_db_enabled(Globals))
                => ret' = Return(DurableResult(db, op'))
          /\ (op'.name \in SetNames /\ db' # db) => ret' # Return(FALSE)
          /\ UNCHANGED <<globalVars, _cache>>]_vars

-----------------------------------------------------------------------------
(* Failure of the external service during a backfill (checked under        *)
(* SpecFill)                                                               *)

\* the call of the step asked the external service, which answered with an error status
FetchFailed ==
    /\ op'.name = "fill_missing_price_data"
    /\ op'.fetched
    /\ op'.api.status # 200

\* C33: a failure of the external fetch during fill_missing_price_data is propagated
\* to the caller as an exception and not swallowed: the call does not return normally,
\* so that it never returns a list of backfilled dates whose fetch failed.
C33_FetchFailurePropagated ==
    [][FetchFailed => ret'.kind = "raise"]_vars

-----------------------------------------------------------------------------
(* The fallback store by itself: _memory_set and _memory_get called for    *)
(* price bars and for financial metrics, and get_financial_metrics served  *)
(* by the fallback store, with both other tiers down (mode memory).        *)

MemoryTimes == {"2024-01-01T00:00:00", "2024-01-02T12:00:00", "2024-01-03T00:00:00"}
MemoryPrices == [time : MemoryTimes, close : {1}]
MemoryPeriods == {"ttm", "quarterly"}
MemoryMetrics == [ticker : Tickers, report_period : {"2024-01-01", "2024-01-02"},
                  period : MemoryPeriods, pe_ratio : {1}]
RangeDates == {PyStr("2024-01-01"), PyStr("2024-01-02")}
Limits == {1, 2}

\* the keyword arguments of a read: a date range and a limit, or an end date and a limit
MemoryFilters ==
    [start_date : RangeDates, end_date : RangeDates, limit : {PyInt(n) : n \in Limits}]
    \cup [end_date : RangeDates, limit : {PyInt(n) : n \in Limits}]

\* self._memory_set(cache_type, ticker, data, key_field)
MemorySet(cache_type, ticker, data, key_field) ==
    /\ _memory_cache' = _memory_set(_memory_cache, cache_type, ticker, data, key_field)
    /\ ret' = Return(TRUE)
    /\ op' = [name |-> "_memory_set", dataset |-> cache_type, ticker |-> ticker,
              data |-> data]
    /\ UNCHANGED <<sessionVars, globalVars, pref, facadeVars, db, redis>>

\* self._memory_get(cache_type, ticker, **filters)
MemoryGet(cache_type, ticker, filters) ==
    /\ ret' = _memory_get(_memory_cache, cache_type, ticker, filters)
    /\ op' = [name |-> "_memory_get", dataset |-> cache_type, ticker |-> ticker,
              filters |-> filters]
    /\ UNCHANGED <<sessionVars, globalVars, pref, facadeVars, storeVars>>

\* the state after init_cache() when neither tier could be opened
InitMemory ==
    /\ InitFault
    /\ ~is_db_enabled(Globals)
    /\ ~is_redis_enabled(Globals)

NextMemory ==
    \/ \E ticker \in Tickers, data \in Batches(MemoryPrices) :
          Working("prices") /\ MemorySet("prices", ticker, data, "time")
    \/ \E ticker \in Tickers, data \in Batches(MemoryMetrics) :
          Working("financial_metrics")
          /\ MemorySet("financial_metrics", ticker, data, "report_period")
    \/ \E ticker \in Tickers, filters \in MemoryFilters :
          Working("prices") /\ MemoryGet("prices", ticker, filters)
    \/ \E ticker \in Tickers, filters \in MemoryFilters :
          Working("financial_metrics") /\ MemoryGet("financial_metrics", ticker, filters)
    \/ \E ticker \in Tickers, end_date \in RangeDates, period \in MemoryPeriods,
          limit \in Limits :
          Working("financial_metrics")
          /\ GetFinancialMetrics(ticker, end_date, period, limit)

SpecMemory == InitMemory /\ [][NextMemory]_vars

\* the records of a list whose date lies in the range of the filters, the date of a
\* record being the part before the T of its date field; a filter whose date field the
\* records do not carry selects every record
InDateRange(data, cache_type, filters) ==
    LET Qualifies(item) ==
            /\ ("start_date" \in DOMAIN filters /\ StartField(cache_type) \in DOMAIN item)
                  => StrLE(filters.start_date.s, SplitT0(item[StartField(cache_type)]))
            /\ ("end_date" \in DOMAIN filters /\ EndField(cache_type) \in DOMAIN item)
                  => StrLE(SplitT0(item[EndField(cache_type)]), filters.end_date.s)
    IN SelectSeq(data, Qualifies)

\* the records of a list that are of a period
OfPeriod(data, period) ==
    LET Matches(item) == item.period = period
    IN SelectSeq(data, Matches)

-----------------------------------------------------------------------------
(* The durable read and the fallback read of get_prices on the same        *)
(* records (checked under SpecManager)                                     *)

\* the price bars (time and values) of a list of records or rows
BarsOf(list) == {[time |-> list[i].time, close |-> list[i].close] : i \in DOMAIN list}

\* what the durable leg of get_prices returns when the prices table holds the records
\* for the ticker
DurableRead(records, ticker, start_date, end_date) ==
    QueryPrices([i \in DOMAIN records |->
                    [ticker |-> ticker, time |-> records[i].time,
                     close |-> records[i].close]],
                ticker, start_date, end_date)

\* what the fallback leg of get_prices returns when the fallback list of the ticker
\* holds the records
FallbackRead(records, ticker, start_date, end_date) ==
    _memory_get([EmptyMemoryCache EXCEPT !.prices = [t \in {ticker} |-> records]],
                "prices", ticker,
                [start_date |-> start_date, end_date |-> end_date]).val

\* C35: the fallback read applies the same filters as the durable read: a get_prices
\* with a start_date and an end_date that is served by one of the two stores returns
\* the set of bars that the read of the other store returns for the same stored
\* records and the same dates, bars dated on end_date included.
C35_FallbackReadSameAsDurable ==
    [][(/\ op'.name = "get_prices"
        /\ Truthy(op'.start_date)
        /\ Truthy(op'.end_date)
        /\ ~FastCacheHit(redis, op'))
       => /\ ret'.kind = "return"
          /\ BarsOf(ret'.val)
             = BarsOf(IF is_db_enabled(Globals)
                      THEN FallbackRead(StoredOf("prices", op'.ticker), op'.ticker,
                                        op'.start_date, op'.end_date)
                      ELSE DurableRead(StoredOf("prices", op'.ticker), op'.ticker,
                                       op'.start_date, op'.end_date))]_vars

-----------------------------------------------------------------------------
(* cache.py: set_prices in memory mode, step by step for concurrent        *)
(* callers.  Without a durable store and a fast cache the call is          *)
(* _memory_set("prices", ticker, data, "time"), and a thread can be        *)
(* switched between any two of its statements: the test of the ticker,     *)
(* the creation of its list, the read of the list that is the argument of  *)
(* _merge_data, and the assignment of the merged list.                     *)

\* set_prices(ticker, data) up to the call of _memory_set
RaceSetPrices(c, ticker, data) ==
    /\ wrapper[c].pc = "idle"
    /\ ~is_db_enabled(Globals)
    /\ ~_cache.redis
    /\ wrapper' = [wrapper EXCEPT ![c] = [pc |-> "check", db |-> None,
                                          ticker |-> ticker, data |-> data]]
    /\ op' = [name |-> "set_prices", dataset |-> "prices", caller |-> c,
              step |-> "call", ticker |-> ticker, data |-> data]
    /\ UNCHANGED <<globalVars, pref, facadeVars, storeVars, sessions, ret>>

\* if ticker not in _memory_cache[cache_type]
MemorySetCheck(c) ==
    /\ wrapper[c].pc = "check"
    /\ wrapper' = [wrapper EXCEPT ![c].pc =
                      IF wrapper[c].ticker \in DOMAIN _memory_cache.prices
                      THEN "read" ELSE "init"]
    /\ op' = [name |-> "set_prices", dataset |-> "prices", caller |-> c,
              step |-> "check", ticker |-> wrapper[c].ticker, data |-> wrapper[c].data]
    /\ UNCHANGED <<globalVars, pref, facadeVars, storeVars, sessions, ret>>

\* _memory_cache[cache_type][ticker] = []
MemorySetInit(c) ==
    /\ wrapper[c].pc = "init"
    /\ _memory_cache' =
          [_memory_cache EXCEPT !.prices =
              [t \in DOMAIN _memory_cache.prices \cup {wrapper[c].ticker} |->
                  IF t = wrapper[c].ticker THEN <<>> ELSE _memory_cache.prices[t]]]
    /\ wrapper' = [wrapper EXCEPT ![c].pc = "read"]
    /\ op' = [name |-> "set_prices", dataset |-> "prices", caller |-> c,
              step |-> "init", ticker |-> wrapper[c].ticker, data |-> wrapper[c].data]
    /\ UNCHANGED <<globalVars, pref, facadeVars, db, redis, sessions, ret>>

\* the argument _memory_cache[cache_type][ticker] of _merge_data is read
MemorySetRead(c) ==
    /\ wrapper[c].pc = "read"
    /\ wrapper' = [wrapper EXCEPT ![c] =
                      [pc |-> "store", db |-> None, ticker |-> wrapper[c].ticker,
                       data |-> wrapper[c].data,
                       existing |-> _memory_cache.prices[wrapper[c].ticker]]]
    /\ op' = [name |-> "set_prices", dataset |-> "prices", caller |-> c,
              step |-> "read", ticker |-> wrapper[c].ticker, data |-> wrapper[c].data]
    /\ UNCHANGED <<globalVars, pref, facadeVars, storeVars, sessions, ret>>

\* a store that merges into the list as it is at the moment of the assignment
MemorySetStore_locked(c) ==
    /\ wrapper[c].pc = "store"
    /\ _memory_cache' = _memory_set(_memory_cache, "prices", wrapper[c].ticker,
                                    wrapper[c].data, "time")
    /\ wrapper' = [wrapper EXCEPT ![c].pc = "idle"]
    /\ ret' = Return(TRUE)
    /\ op' = [name |-> "set_prices", dataset |-> "prices", caller |-> c,
              step |-> "store", ticker |-> wrapper[c].ticker, data |-> wrapper[c].data]
    /\ UNCHANGED <<globalVars, pref, facadeVars, db, redis, sessions>>

\* _memory_cache[cache_type][ticker] = self._merge_data(<the list read>, data,
\* key_field), and set_prices returns True
MemorySetStore(c) ==
    /\ wrapper[c].pc = "store"
    /\ _memory_cache' =
          [_memory_cache EXCEPT !.prices =
              [t \in DOMAIN _memory_cache.prices \cup {wrapper[c].ticker} |->
                  IF t = wrapper[c].ticker
                  THEN _merge_data(wrapper[c].existing, wrapper[c].data, "time")
                  ELSE _memory_cache.prices[t]]]
    /\ wrapper' = [wrapper EXCEPT ![c].pc = "idle"]
    /\ ret' = Return(TRUE)
    /\ op' = [name |-> "set_prices", dataset |-> "prices", caller |-> c,
              step |-> "store", ticker |-> wrapper[c].ticker, data |-> wrapper[c].data]
    /\ UNCHANGED <<globalVars, pref, facadeVars, db, redis, sessions>>

NextRace ==
    \/ \E c \in Callers, ticker \in Tickers, data \in StatsPrices :
          RaceSetPrices(c, ticker, data)
    \/ \E c \in Callers : MemorySetCheck(c)
    \/ \E c \in Callers : MemorySetInit(c)
    \/ \E c \in Callers : MemorySetRead(c)
    \/ \E c \in Callers : MemorySetStore(c)

SpecRace == InitMemory /\ [][NextRace]_vars

\* the records of a list
RecordsOf(list) == {list[i] : i \in DOMAIN list}

\* C36: concurrent writers race on the fallback store.  A set_prices that assigns its
\* merged list after another writer has changed the ticker's list since it read it
\* merges into the list it read: the records that the other writer stored meanwhile
\* are not in the list after the assignment, unless the writer's own batch has their
\* key; a set_prices whose list was not changed meanwhile loses no record.
C36_WritersRaceOnFallbackList ==
    [][\A c \in Callers :
          (op'.caller = c /\ op'.step = "store")
          => LET cur == MemoryList(_memory_cache, "prices", wrapper[c].ticker)
                 new == MemoryList(_memory_cache', "prices", wrapper[c].ticker)
             IN /\ cur = wrapper[c].existing => RecordsOf(cur) \subseteq RecordsOf(new)
                /\ \A r \in RecordsOf(cur) \ RecordsOf(wrapper[c].existing) :
                      r.time \notin KeysOf(wrapper[c].data, "time")
                      => r.time \notin KeysOf(new, "time")]_vars

\* C36 witness: two set_prices calls for the same ticker have both returned, and the
\* ticker's list lacks the bar that one of them wrote
C36_Witness ==
    /\ \A c \in Callers : wrapper[c].pc = "idle" /\ "data" \in DOMAIN wrapper[c]
    /\ wrapper[1].ticker = wrapper[2].ticker
    /\ \E c \in Callers :
          ~(KeysOf(wrapper[c].data, "time")
            \subseteq KeysOf(MemoryList(_memory_cache, "prices", wrapper[c].ticker),
                             "time"))

-----------------------------------------------------------------------------
(* cache.py: get_prices and set_prices on a facade with both tiers (mode   *)
(* full), step by step for concurrent callers.  Every command of the fast  *)
(* cache and every statement of the durable store is atomic; a thread can  *)
(* be switched between them.  A call holds the session that                *)
(* with_db_session obtained until its exit.                                *)

\* the bars written: the bar of one day, with either close
OverlapBatches == {<<[time |-> "2024-01-01T00:00:00", close |-> v]>> : v \in Vals}

\* the call of the facade of caller c is at position pc, call being its other fields
At(c, pc, call) ==
    wrapper' = [wrapper EXCEPT ![c] = [call EXCEPT !.pc = pc]]

\* the step of a call of the facade by caller c
OverlapStep(c, step) ==
    op' = [name |-> wrapper'[c].name, dataset |-> "prices", caller |-> c, step |-> step,
           ticker |-> wrapper'[c].ticker]

\* get_prices(ticker, start_date, end_date) is called: the wrapper obtains a session
OverlapGetPrices(c, ticker, start_date, end_date) ==
    /\ wrapper[c].pc = "idle"
    /\ sessions.made < MaxSessions
    /\ is_db_enabled(Globals)
    /\ _cache.redis
    /\ sessions' = get_db(Globals, sessions).sessions
    /\ wrapper' = [wrapper EXCEPT ![c] =
                      [pc |-> "lookup", db |-> get_db(Globals, sessions).db,
                       name |-> "get_prices", ticker |-> ticker,
                       start_date |-> start_date, end_date |-> end_date]]
    /\ OverlapStep(c, "call")
    /\ UNCHANGED <<globalVars, pref, facadeVars, storeVars, ret>>

\* cached_data = self._redis_get(cache_key); if cached_data: return cached_data
GetLookup(c) ==
    /\ wrapper[c].pc = "lookup"
    /\ LET cached_data == _redis_get(_cache, redis, KeyOfGet(wrapper[c]), FALSE)
       IN IF cached_data # <<>>
          THEN wrapper' = [wrapper EXCEPT ![c] =
                              [pc |-> "exit", db |-> wrapper[c].db,
                               name |-> "get_prices", ticker |-> wrapper[c].ticker,
                               outcome |-> Return(cached_data)]]
          ELSE At(c, "query", wrapper[c])
    /\ OverlapStep(c, "lookup")
    /\ UNCHANGED <<globalVars, pref, facadeVars, storeVars, sessions, ret>>

\* db_results = query.order_by(Price.time).all(); without results the call returns []
GetQuery(c) ==
    /\ wrapper[c].pc = "query"
    /\ LET results == DurableResult(db, wrapper[c])
       IN IF results # <<>>
          THEN wrapper' = [wrapper EXCEPT ![c] =
                              [pc |-> "write", db |-> wrapper[c].db,
                               name |-> "get_prices", ticker |-> wrapper[c].ticker,
                               start_date |-> wrapper[c].start_date,
                               end_date |-> wrapper[c].end_date, results |-> results]]
          ELSE wrapper' = [wrapper EXCEPT ![c] =
                              [pc |-> "exit", db |-> wrapper[c].db,
                               name |-> "get_prices", ticker |-> wrapper[c].ticker,
                               outcome |-> Return(<<>>)]]
    /\ OverlapStep(c, "query")
    /\ UNCHANGED <<globalVars, pref, facadeVars, storeVars, sessions, ret>>

\* self._redis_set(cache_key, results); return results
GetWriteThrough(c) ==
    /\ wrapper[c].pc = "write"
    /\ redis' = _redis_set(_cache, redis, KeyOfGet(wrapper[c]),
                           Entry(wrapper[c].results, "get", "prices", wrapper[c].ticker),
                           FALSE)
    /\ wrapper' = [wrapper EXCEPT ![c] =
                      [pc |-> "exit", db |-> wrapper[c].db, name |-> "get_prices",
                       ticker |-> wrapper[c].ticker,
                       outcome |-> Return(wrapper[c].results)]]
    /\ OverlapStep(c, "write")
    /\ UNCHANGED <<globalVars, pref, facadeVars, db, _memory_cache, sessions, ret>>

\* set_prices(ticker, data, force_update) is called: the wrapper obtains a session
OverlapSetPrices(c, ticker, data, force_update) ==
    /\ wrapper[c].pc = "idle"
    /\ sessions.made < MaxSessions
    /\ is_db_enabled(Globals)
    /\ _cache.redis
    /\ sessions' = get_db(Globals, sessions).sessions
    /\ wrapper' = [wrapper EXCEPT ![c] =
                      [pc |-> "fast", db |-> get_db(Globals, sessions).db,
                       name |-> "set_prices", ticker |-> ticker, data |-> data,
                       force_update |-> force_update]]
    /\ OverlapStep(c, "call")
    /\ UNCHANGED <<globalVars, pref, facadeVars, storeVars, ret>>

\* the fast-cache leg of set_prices: the keys of the pattern are deleted and the batch
\* is written under the key of the ticker
SetFastLeg(c) ==
    /\ wrapper[c].pc = "fast"
    /\ redis' = _redis_set(_cache,
                           ScanDelete(redis, "prices:ticker:" \o wrapper[c].ticker),
                           generate_cache_key("prices",
                               << <<"ticker", PyStr(wrapper[c].ticker)>> >>),
                           Entry(wrapper[c].data, "set", "prices", wrapper[c].ticker),
                           FALSE)
    /\ At(c, "durable", wrapper[c])
    /\ OverlapStep(c, "fast")
    /\ UNCHANGED <<globalVars, pref, facadeVars, db, _memory_cache, sessions, ret>>

\* the durable leg of set_prices: the loop over the batch and db.commit()
SetDurableLeg(c) ==
    /\ wrapper[c].pc = "durable"
    /\ db' = [db EXCEPT !.prices = CommitPrices(db.prices, wrapper[c].ticker,
                                                wrapper[c].data,
                                                wrapper[c].force_update)]
    /\ wrapper' = [wrapper EXCEPT ![c] =
                      [pc |-> "exit", db |-> wrapper[c].db, name |-> "set_prices",
                       ticker |-> wrapper[c].ticker, outcome |-> Return(TRUE)]]
    /\ OverlapStep(c, "durable")
    /\ UNCHANGED <<globalVars, pref, facadeVars, redis, _memory_cache, sessions, ret>>

\* the method returns and the finally of the wrapper closes the session
OverlapExit(c) ==
    /\ wrapper[c].pc = "exit"
    /\ sessions' = with_db_session_finally(sessions, wrapper[c])
    /\ wrapper' = [wrapper EXCEPT ![c] = [pc |-> "idle", db |-> None]]
    /\ ret' = wrapper[c].outcome
    /\ op' = [name |-> wrapper[c].name, dataset |-> "prices", caller |-> c,
              step |-> "exit", ticker |-> wrapper[c].ticker]
    /\ UNCHANGED <<globalVars, pref, facadeVars, storeVars>>

\* the state after init_cache() when both tiers could be opened
InitOverlap ==
    /\ InitFault
    /\ is_db_enabled(Globals)
    /\ is_redis_enabled(Globals)

NextOverlap ==
    \/ \E c \in Callers, ticker \in Tickers, f \in DateFilters :
          OverlapGetPrices(c, ticker, f[1], f[2])
    \/ \E c \in Callers : GetLookup(c)
    \/ \E c \in Callers : GetQuery(c)
    \/ \E c \in Callers : GetWriteThrough(c)
    \/ \E c \in Callers, ticker \in Tickers, data \in OverlapBatches,
          force_update \in BOOLEAN :
          OverlapSetPrices(c, ticker, data, force_update)
    \/ \E c \in Callers : SetFastLeg(c)
    \/ \E c \in Callers : SetDurableLeg(c)
    \/ \E c \in Callers : OverlapExit(c)

SpecOverlap == InitOverlap /\ [][NextOverlap]_vars

\* no call of the facade is in progress
Quiescent == \A c \in Callers : wrapper[c].pc = "idle"

\* C37: the stale fast-cache entry that a reader concurrent with a set may observe is
\* only transient: once the set and every get that overlapped it have completed, no
\* fast-cache entry of the ticker's prices differs from what the durable store returns
\* for the same query.
C37_StaleEntryOnlyTransient ==
    Quiescent
    => \A ticker \in Tickers, f \in DateFilters :
          LET o == [name |-> "get_prices", ticker |-> ticker, start_date |-> f[1],
                    end_date |-> f[2]]
          IN KeyOfGet(o) \in DOMAIN redis
             => model_dump(redis[KeyOfGet(o)].val) = model_dump(DurableResult(db, o))

-----------------------------------------------------------------------------
(* The facade and the cache manager on two tickers, one a prefix of the    *)
(* other, in every cache mode that the preference full degrades to.        *)

TwoTickers == {"A", "AB"}

\* the bar written
TickerBatches == {<<[time |-> "2024-01-01T00:00:00", close |-> 1]>>}

NextTickers ==
    \/ \E ticker \in TwoTickers, f \in DateFilters : GetPrices(ticker, f[1], f[2], FALSE)
    \/ \E ticker \in TwoTickers, data \in TickerBatches, force_update \in BOOLEAN :
          SetPrices(ticker, data, force_update, FALSE, FALSE)
    \/ \E ticker \in TwoTickers : ClearTickerCache(ticker, FALSE)

SpecTickers == InitFault /\ [][NextTickers]_vars

\* what the three tiers hold for a ticker: its rows of the durable store, its list of
\* the fallback store, and its entries of the fast cache
HeldFor(tables, rd, mc, ticker) ==
    LET OfTicker(row) == row.ticker = ticker
    IN [rows |-> SelectSeq(tables.prices, OfTicker),
        list |-> MemoryList(mc, "prices", ticker),
        entries |-> {<<k, rd[k]>> : k \in {x \in DOMAIN rd : rd[x].ticker = ticker}}]

\* C38: operations on one ticker never affect another: a set_prices or a
\* clear_ticker_cache for a ticker leaves the records of every tier and the fast-cache
\* entries of every other ticker unchanged, also when the one is a prefix of the
\* other, and every row that the set adds to the durable store and every record that
\* it adds to the fallback store is stored under its ticker.
C38_TickersIsolated ==
    [][op'.name \in {"set_prices", "clear_ticker_cache"}
       => /\ \A other \in TwoTickers \ {op'.ticker} :
                HeldFor(db', redis', _memory_cache', other)
                = HeldFor(db, redis, _memory_cache, other)
          /\ Len(db'.prices) >= Len(db.prices)
          /\ \A i \in (Len(db.prices) + 1)..Len(db'.prices) :
                db'.prices[i].ticker = op'.ticker
          /\ DOMAIN _memory_cache'.prices \subseteq DOMAIN _memory_cache.prices
                                                       \cup {op'.ticker}]_vars

-----------------------------------------------------------------------------
(* cache_manager.py: the global CacheManager instance.  The module creates *)
(* it when it is imported, and CacheManager.__init__ keeps the facade that *)
(* get_cache() returns at that moment.                                     *)

\* import data.cache_manager: _cache_manager = CacheManager()
ImportCacheManager ==
    /\ _cache_manager = None
    /\ _cache_manager' = CacheManager(_cache)
    /\ op' = [name |-> "import_cache_manager"]
    /\ ret' = Return(None)
    /\ UNCHANGED <<sessionVars, globalVars, pref, _cache, storeVars>>

NextImport ==
    \/ ImportCacheManager
    \/ \E dbOut \in DbOutcomes, rdOut \in RedisOutcomes : CallInitDb(dbOut, rdOut)
    \/ \E mode \in Modes, dbOut \in DbOutcomes, rdOut \in RedisOutcomes :
          CallSetCacheMode(mode, dbOut, rdOut)
    \/ \E dbOut \in DbOutcomes, rdOut \in RedisOutcomes : InitCache(dbOut, rdOut)

SpecImport == InitMode /\ [][NextImport]_vars

\* C39: after init_cache() every component uses the mode and the tier handles of the
\* latest initialisation: the facade of get_cache_manager() is the instance that
\* get_cache() returns, and its cache_mode and its fast-cache handle are what
\* get_cache_mode() and get_redis() return at that time.
C39_ManagerUsesLatestFacade ==
    [][(op'.name = "init_cache" /\ _cache_manager' # None)
       => /\ _cache_manager'.current
          /\ _cache_manager'.cache = _cache'
          /\ _cache'.cache_mode = get_cache_mode(Globals')
          /\ _cache'.redis = get_redis(Globals')]_vars

-----------------------------------------------------------------------------
(* database.py: set_cache_mode, init_db and init_redis statement by        *)
(* statement, with the stack of their calls.  A frame is [fn, pc, mode]:   *)
(* the function, the position in it, and the argument of set_cache_mode.   *)
(* Every attempt to open a tier has its own outcome.                       *)

\* the depth of the call stack that no call is pushed beyond
MaxDepth == 6

\* the thread that initialises the tiers
Starter == CHOOSE c \in Callers : \A d \in Callers : c <= d

\* the call stack of the initialisation, the innermost call last
Stack == IF "stack" \in DOMAIN wrapper[Starter] THEN wrapper[Starter].stack ELSE <<>>

Deepest == IF "deepest" \in DOMAIN wrapper[Starter] THEN wrapper[Starter].deepest ELSE 0

Frame(fn, mode) == [fn |-> fn, pc |-> "start", mode |-> mode]

\* the stack after the innermost call returned
Pop(st) == SubSeq(st, 1, Len(st) - 1)

\* the stack after the innermost call moved to pc and called fn(mode)
Call(st, pc, fn, mode) == Append([st EXCEPT ![Len(st)].pc = pc], Frame(fn, mode))

\* the initialisation goes on with the stack st
Running(st) ==
    /\ Len(st) <= MaxDepth
    /\ wrapper' = [wrapper EXCEPT ![Starter] =
                      [pc |-> IF st = <<>> THEN "idle" ELSE "init", db |-> None,
                       stack |-> st,
                       deepest |-> IF Len(st) > Deepest THEN Len(st) ELSE Deepest]]

\* a set_cache_mode that falls back to sqlite without asking for the durable store
RedisFallbackMode_always_sqlite(g) == "sqlite"

\* 'sqlite' if is_db_enabled() else 'memory'
RedisFallbackMode(g) == IF is_db_enabled(g) THEN "sqlite" ELSE "memory"

\* the application calls init_db(), init_redis() or set_cache_mode(mode)
StartInit(fn, mode) ==
    /\ Stack = <<>>
    /\ wrapper' = [wrapper EXCEPT ![Starter] =
                      [pc |-> "init", db |-> None, stack |-> <<Frame(fn, mode)>>,
                       deepest |-> 1]]
    /\ pref' = IF fn # "set_cache_mode" THEN pref
               ELSE IF mode \in Modes THEN mode ELSE "full"
    /\ op' = [name |-> fn, mode |-> mode, step |-> "call"]
    /\ UNCHANGED <<globalVars, facadeVars, storeVars, sessions, ret>>

\* the next statement of the innermost call, a set_cache_mode(mode)
SetCacheModeStep ==
    /\ Stack # <<>>
    /\ LET top == Stack[Len(Stack)]
           g1 == [Globals EXCEPT !.CACHE_MODE = top.mode]
       IN /\ top.fn = "set_cache_mode"
          /\ IF top.pc = "return" THEN Running(Pop(Stack)) /\ UNCHANGED globalVars
             ELSE IF top.mode \notin Modes
             THEN /\ SetGlobals([Globals EXCEPT !.CACHE_MODE = "full"])
                  /\ Running(Pop(Stack))
             ELSE /\ SetGlobals(g1)
                  /\ IF top.mode \in {"full", "sqlite"} /\ ~is_db_enabled(g1)
                     THEN Running(Call(Stack, "return", "init_db", ""))
                     ELSE Running(Pop(Stack))
          /\ op' = [name |-> top.fn, mode |-> top.mode, step |-> top.pc]
    /\ UNCHANGED <<pref, facadeVars, storeVars, sessions, ret>>

\* the next statement of the innermost call, an init_db(); dbOut is the outcome of the
\* attempt to open the durable store, if the statement is that attempt
InitDbStep(dbOut) ==
    /\ Stack # <<>>
    /\ LET top == Stack[Len(Stack)]
           g1 == CASE dbOut = "ok" -> [Globals EXCEPT !.engine = TRUE, !.db_enabled = TRUE]
                   [] dbOut = "engine_error" -> [Globals EXCEPT !.db_enabled = FALSE]
                   [] dbOut = "connect_error" ->
                          [Globals EXCEPT !.engine = TRUE, !.db_enabled = FALSE]
       IN /\ top.fn = "init_db"
          /\ IF top.pc = "return" THEN Running(Pop(Stack)) /\ UNCHANGED globalVars
             ELSE IF top.pc = "redis"
             THEN Running(Call(Stack, "return", "init_redis", "")) /\ UNCHANGED globalVars
             ELSE IF _engine THEN Running(Pop(Stack)) /\ UNCHANGED globalVars
             ELSE /\ SetGlobals(g1)
                  /\ IF dbOut # "ok" /\ g1.CACHE_MODE = "sqlite"
                     THEN Running(Call(Stack, "redis", "set_cache_mode", "redis"))
                     ELSE Running([Stack EXCEPT ![Len(Stack)].pc = "redis"])
          /\ op' = [name |-> top.fn, mode |-> top.mode, step |-> top.pc]
    /\ UNCHANGED <<pref, facadeVars, storeVars, sessions, ret>>

\* the next statement of the innermost call, an init_redis(); rdOut is the outcome of
\* the attempt to open the fast cache, if the statement is that attempt
InitRedisStep(rdOut) ==
    /\ Stack # <<>>
    /\ LET top == Stack[Len(Stack)]
           g1 == CASE rdOut = "ok" ->
                          [Globals EXCEPT !.redis_client = TRUE, !.redis_enabled = TRUE]
                   [] rdOut = "url_error" -> [Globals EXCEPT !.redis_enabled = FALSE]
                   [] rdOut = "ping_error" ->
                          [Globals EXCEPT !.redis_client = TRUE, !.redis_enabled = FALSE]
       IN /\ top.fn = "init_redis"
          /\ IF top.pc = "return" THEN Running(Pop(Stack)) /\ UNCHANGED globalVars
             ELSE IF _redis_client THEN Running(Pop(Stack)) /\ UNCHANGED globalVars
             ELSE IF CACHE_MODE = "none"
             THEN /\ SetGlobals([Globals EXCEPT !.redis_enabled = FALSE])
                  /\ Running(Pop(Stack))
             ELSE /\ SetGlobals(g1)
                  /\ IF rdOut # "ok" /\ g1.CACHE_MODE = "redis"
                     THEN Running(Call(Stack, "return", "set_cache_mode",
                                       RedisFallbackMode(g1)))
                     ELSE Running(Pop(Stack))
          /\ op' = [name |-> top.fn, mode |-> top.mode, step |-> top.pc]
    /\ UNCHANGED <<pref, facadeVars, storeVars, sessions, ret>>

\* a statement of the initialisation in progress
InitSteps ==
    \/ SetCacheModeStep
    \/ \E dbOut \in DbOutcomes : InitDbStep(dbOut)
    \/ \E rdOut \in RedisOutcomes : InitRedisStep(rdOut)

NextInit ==
    \/ \E fn \in {"init_db", "init_redis"} : StartInit(fn, "")
    \/ \E mode \in Modes \cup {"bogus"} : StartInit("set_cache_mode", mode)
    \/ SetCacheModeStep
    \/ \E dbOut \in DbOutcomes : InitDbStep(dbOut)
    \/ \E rdOut \in RedisOutcomes : InitRedisStep(rdOut)

SpecInit == InitMode /\ [][NextInit]_vars

\* a call that was started keeps running until it returns
SpecInitLive == SpecInit /\ WF_vars(InitSteps)

\* C40: initialisation terminates: for every configured preference and every
\* combination of failures of the durable store and of the fast cache, a call of
\* init_db, init_redis or set_cache_mode returns after finitely many steps, and the
\* stack of the calls that they make of each other stays below MaxDepth.
C40_InitializationTerminates ==
    /\ [](Len(Stack) < MaxDepth)
    /\ (Stack # <<>>) ~> (Stack = <<>>)

\* C40 witness: a set_cache_mode('sqlite') has returned after the longest chain of
\* calls, set_cache_mode -> init_db -> init_redis -> set_cache_mode('memory'), both
\* tiers having failed
C40_Witness ==
    /\ Stack = <<>>
    /\ Deepest = 4
    /\ CACHE_MODE = "memory"
    /\ ~is_db_enabled(Globals)
    /\ ~is_redis_enabled(Globals)

====
